---- MODULE Spec2Model ----
(***************************************************************************)
(* Brake-point analysis pipeline: brake onset detection, zone assignment,  *)
(* per-driver/per-zone dispersion, driver summary and lap-time             *)
(* conversion.  Tables (pandas DataFrames) are sequences of records, a     *)
(* missing float (NaN / None) is the value NaN, and lengths are kept in    *)
(* fixed point (1/Scale of a metre) where the code takes a square root.    *)
(***************************************************************************)
EXTENDS Integers, Sequences, FiniteSets, TLC

VARIABLES pc, telemetry, threshold, df_events,
          zones, centerline, brake_events_df, dispersion_by_zone, driver_summary,
          time_str, fastest_lap_seconds,
          points, track_distances, assigned, path, resampled,
          cache_file, write_log, run_log, run_state, lock,
          results_df, driver_zone_curves, split_curves, hypothesis, saved

vars == <<pc, telemetry, threshold, df_events,
          zones, centerline, brake_events_df, dispersion_by_zone, driver_summary,
          time_str, fastest_lap_seconds,
          points, track_distances, assigned, path, resampled,
          cache_file, write_log, run_log, run_state, lock,
          results_df, driver_zone_curves, split_curves, hypothesis, saved>>

detectVars == <<telemetry, threshold, df_events>>
consistencyVars == <<zones, centerline, brake_events_df, dispersion_by_zone, driver_summary>>
lapVars == <<time_str, fastest_lap_seconds>>
projectVars == <<points, track_distances>>
assignVars == <<assigned>>
resampleVars == <<path, resampled>>
cacheVars == <<cache_file, write_log, run_log, run_state, lock>>
analysisVars == <<results_df, driver_zone_curves, split_curves, hypothesis, saved>>
trackVars == <<projectVars, assignVars, resampleVars, cacheVars, analysisVars>>

\* A missing value: numpy NaN in a float column, None in an object column.
NaN == 0 - 1

\* ------------------------------------------------------------------------
\* Bounds of the model
\* ------------------------------------------------------------------------
MaxRows == 4
Groups == {<<7, 1>>, <<7, 2>>, <<8, 1>>}
PressurePairs == {<<NaN, NaN>>, <<2, 1>>, <<3, NaN>>, <<1, 4>>}
Thresholds == {3}
MaxZoneEvents == 3
MaxEvents == 4
MaxLen == 5
\* Lengths are kept to 1/Scale of a metre.
Scale == 100

\* ------------------------------------------------------------------------
\* Generic helpers
\* ------------------------------------------------------------------------
Range(s) == {s[i] : i \in DOMAIN s}

RECURSIVE Concat(_)
Concat(ss) == IF ss = <<>> THEN <<>> ELSE Head(ss) \o Concat(Tail(ss))

Reverse(s) == [i \in 1..Len(s) |-> s[Len(s) + 1 - i]]

RECURSIVE SumSeq(_)
SumSeq(s) == IF s = <<>> THEN 0 ELSE Head(s) + SumSeq(Tail(s))

\* The integer square root (np.sqrt, truncated to the model's precision).
RECURSIVE SqrtBetween(_, _, _)
SqrtBetween(n, lo, hi) ==
    IF lo >= hi THEN lo
    ELSE LET mid == (lo + hi + 1) \div 2
         IN  IF mid * mid <= n THEN SqrtBetween(n, mid, hi)
             ELSE SqrtBetween(n, lo, mid - 1)

Sqrt(n) == SqrtBetween(n, 0, IF n < 46340 THEN n ELSE 46340)

\* ------------------------------------------------------------------------
\* Brake onset detection (brake_detection.py)
\* ------------------------------------------------------------------------
KeyLess(a, b) ==
    \/ a.vehicle_number < b.vehicle_number
    \/ a.vehicle_number = b.vehicle_number /\ a.lap < b.lap
    \/ a.vehicle_number = b.vehicle_number /\ a.lap = b.lap /\ a.timestamp < b.timestamp

\* Stable insertion of row r into a sequence already sorted by the key.
RECURSIVE InsertSorted(_, _)
InsertSorted(r, s) ==
    IF s = <<>> THEN <<r>>
    ELSE IF KeyLess(r, Head(s)) THEN <<r>> \o s
    ELSE <<Head(s)>> \o InsertSorted(r, Tail(s))

\* A plausible slip: the table is used in the order it arrived.
sort_values_omitted(df) == df

\* df.sort_values(["vehicle_number", "lap", "timestamp"]) (stable)
sort_values(df) ==
    LET RECURSIVE SortPrefix(_)
        SortPrefix(i) == IF i = 0 THEN <<>> ELSE InsertSorted(df[i], SortPrefix(i - 1))
    IN  SortPrefix(Len(df))

\* df[["pbrake_f", "pbrake_r"]].max(axis=1): missing channels are skipped.
brake_pressure(r) ==
    IF r.pbrake_f = NaN THEN r.pbrake_r
    ELSE IF r.pbrake_r = NaN THEN r.pbrake_f
    ELSE IF r.pbrake_f >= r.pbrake_r THEN r.pbrake_f ELSE r.pbrake_r

\* np.where(df["pbrake_f"] >= df["pbrake_r"], "front", "rear"):
\* a comparison with a missing value is False.
brake_type(r) ==
    IF r.pbrake_f # NaN /\ r.pbrake_r # NaN /\ r.pbrake_f >= r.pbrake_r
    THEN "front" ELSE "rear"

\* A plausible slip: a strict comparison with the threshold.
is_braking_strict(r, thr) == brake_pressure(r) # NaN /\ brake_pressure(r) > thr

\* df["brake_pressure"] >= threshold (False for a missing pressure)
is_braking(r, thr) == brake_pressure(r) # NaN /\ brake_pressure(r) >= thr

WithColumns(r) ==
    [vehicle_number |-> r.vehicle_number, lap |-> r.lap, timestamp |-> r.timestamp,
     x_meters |-> r.x_meters, y_meters |-> r.y_meters,
     brake_pressure |-> brake_pressure(r), brake_type |-> brake_type(r),
     pbrake_f |-> r.pbrake_f, pbrake_r |-> r.pbrake_r]

\* The keys df.groupby(["vehicle_number", "lap"]) visits, in sorted order.
RECURSIVE SortedKeys(_)
SortedKeys(ks) ==
    IF ks = {} THEN <<>>
    ELSE LET k == CHOOSE a \in ks : \A b \in ks :
                      a[1] < b[1] \/ (a[1] = b[1] /\ a[2] <= b[2])
         IN  <<k>> \o SortedKeys(ks \ {k})

GroupKeys(df) == SortedKeys({<<df[i].vehicle_number, df[i].lap>> : i \in DOMAIN df})

GroupOf(df, k) == SelectSeq(df, LAMBDA r : r.vehicle_number = k[1] /\ r.lap = k[2])

\* group["is_braking"].shift(1, fill_value=False)
prev_braking(group, i, thr) == IF i = 1 THEN FALSE ELSE is_braking(group[i - 1], thr)

rising_edge(group, i, thr) == is_braking(group[i], thr) /\ ~prev_braking(group, i, thr)

\* group[rising_edge] with the event columns selected
RECURSIVE OnsetsFrom(_, _, _)
OnsetsFrom(group, i, thr) ==
    IF i > Len(group) THEN <<>>
    ELSE (IF rising_edge(group, i, thr) THEN <<WithColumns(group[i])>> ELSE <<>>)
         \o OnsetsFrom(group, i + 1, thr)

onsets(group, thr) == OnsetsFrom(group, 1, thr)

\* detect_brake_events(df, threshold): the returned events table
\* (an empty table when no group has an onset).
detect_brake_events(df0, thr) ==
    LET df == sort_values(df0)
        keys == GroupKeys(df)
        brake_events == [j \in 1..Len(keys) |-> onsets(GroupOf(df, keys[j]), thr)]
    IN  Concat(brake_events)

\* One telemetry sample is appended to the input table.  Within a
\* (vehicle, lap) group timestamps are distinct (ingestion keeps the first of
\* duplicate keys); every sample has its own position.
LoadRow(g, p) ==
    /\ pc = "load"
    /\ Len(telemetry) < MaxRows
    /\ LET n == Len(telemetry) + 1
           t == 1 + Cardinality({i \in DOMAIN telemetry :
                     telemetry[i].vehicle_number = g[1] /\ telemetry[i].lap = g[2]})
       IN  telemetry' = Append(telemetry,
               [vehicle_number |-> g[1], lap |-> g[2], timestamp |-> t,
                x_meters |-> 10 * n, y_meters |-> 10 * n + 5,
                pbrake_f |-> p[1], pbrake_r |-> p[2]])
    /\ UNCHANGED <<pc, threshold, df_events, consistencyVars, lapVars, trackVars>>

\* The input table need not come sorted: here it arrives newest sample first.
ReverseRows ==
    /\ pc = "load"
    /\ Len(telemetry) >= 2
    /\ telemetry' = Reverse(telemetry)
    /\ pc' = "loaded"
    /\ UNCHANGED <<threshold, df_events, consistencyVars, lapVars, trackVars>>

DetectBrakeEvents ==
    /\ pc \in {"load", "loaded"}
    /\ df_events' = detect_brake_events(telemetry, threshold)
    /\ pc' = "detected"
    /\ UNCHANGED <<telemetry, threshold, consistencyVars, lapVars, trackVars>>

IdleConsistency ==
    /\ zones = <<>>
    /\ centerline = <<>>
    /\ brake_events_df = <<>>
    /\ dispersion_by_zone = <<>>
    /\ driver_summary = <<>>

IdleDetect ==
    /\ telemetry = <<>>
    /\ threshold = 0
    /\ df_events = <<>>

IdleLap ==
    /\ time_str = <<>>
    /\ fastest_lap_seconds = NaN

IdleProject ==
    /\ points = <<>>
    /\ track_distances = <<>>

IdleAssign == assigned = <<>>

IdleResample ==
    /\ path = <<>>
    /\ resampled = <<>>

\* The persisted centerline and band of the track.
CacheFiles == {"track_centerline.csv", "track_band.csv"}
\* A file is absent, or exists and holds a table.
Absent == [exists |-> FALSE, rows |-> <<>>]
File(rows) == [exists |-> TRUE, rows |-> rows]
NoFiles == [f \in CacheFiles |-> Absent]

IdleCache ==
    /\ cache_file = NoFiles
    /\ write_log = <<>>
    /\ run_log = <<>>
    /\ run_state = <<>>
    /\ lock = NaN

IdleAnalysis ==
    /\ results_df = <<>>
    /\ driver_zone_curves = <<>>
    /\ split_curves = <<>>
    /\ hypothesis = <<>>
    /\ saved = {}

IdleTrack ==
    /\ IdleProject
    /\ IdleAssign
    /\ IdleResample
    /\ IdleCache
    /\ IdleAnalysis

InitDetect ==
    /\ pc = "load"
    /\ telemetry = <<>>
    /\ threshold \in Thresholds
    /\ df_events = <<>>
    /\ IdleConsistency
    /\ IdleLap
    /\ IdleTrack

NextDetect ==
    \/ \E g \in Groups, p \in PressurePairs : LoadRow(g, p)
    \/ ReverseRows
    \/ DetectBrakeEvents

SpecDetect == InitDetect /\ [][NextDetect]_vars

\* ------------------------------------------------------------------------
\* Zone assignment (corner_detection.py, generate_filtered_brakes.py)
\* ------------------------------------------------------------------------
ZonePool == {[zone_id |-> 1, start_distance_m |-> 0, end_distance_m |-> 10],
             [zone_id |-> 2, start_distance_m |-> 5, end_distance_m |-> 15],
             [zone_id |-> 3, start_distance_m |-> 15, end_distance_m |-> 20]}

\* Every ordered list of distinct zone definitions (corner_definitions.json).
ZoneLists ==
    {zs \in UNION {[1..n -> ZonePool] : n \in 0..Cardinality(ZonePool)} :
        \A i, j \in DOMAIN zs : i # j => zs[i] # zs[j]}

\* A centerline along the x axis with stations at 0, 5, 7, 10, 15, 20, 25 m.
Centerlines == {<< <<0, 0>>, <<5, 0>>, <<7, 0>>, <<10, 0>>, <<15, 0>>, <<20, 0>>, <<25, 0>> >>}

ZoneVehicles == {7, 8}
ZonePositions == {<<7, 1>>, <<10, 0>>, <<15, 1>>, <<25, 0>>}

\* np.sqrt(dx**2 + dy**2) of the i-th centerline segment, in metres
segment_length(cl, i) ==
    Sqrt((cl[i + 1][1] - cl[i][1]) * (cl[i + 1][1] - cl[i][1])
         + (cl[i + 1][2] - cl[i][2]) * (cl[i + 1][2] - cl[i][2]))

\* np.concatenate([[0], np.cumsum(segment_lengths)])[idx]
RECURSIVE cumulative_distance(_, _)
cumulative_distance(cl, idx) ==
    IF idx = 1 THEN 0 ELSE cumulative_distance(cl, idx - 1) + segment_length(cl, idx - 1)

SquaredDistance(cl, i, px, py) ==
    (cl[i][1] - px) * (cl[i][1] - px) + (cl[i][2] - py) * (cl[i][2] - py)

\* A plausible slip: of several equally near stations the last one is taken.
nearest_idx_last(cl, px, py) ==
    CHOOSE i \in DOMAIN cl :
        /\ \A j \in DOMAIN cl : SquaredDistance(cl, i, px, py) <= SquaredDistance(cl, j, px, py)
        /\ \A j \in (i + 1)..Len(cl) : SquaredDistance(cl, j, px, py) > SquaredDistance(cl, i, px, py)

\* np.argmin(distances): the first index of the smallest distance
nearest_idx(cl, px, py) ==
    CHOOSE i \in DOMAIN cl :
        /\ \A j \in DOMAIN cl : SquaredDistance(cl, i, px, py) <= SquaredDistance(cl, j, px, py)
        /\ \A j \in 1..(i - 1) : SquaredDistance(cl, j, px, py) > SquaredDistance(cl, i, px, py)

\* project_to_centerline for one point
project_to_centerline(px, py, cl) == cumulative_distance(cl, nearest_idx(cl, px, py))

\* A plausible slip: the interval is open at its end.
assign_zone_half_open(distance, zs) ==
    LET hits == {i \in DOMAIN zs : zs[i].start_distance_m <= distance
                                    /\ distance < zs[i].end_distance_m}
    IN  IF hits = {} THEN NaN
        ELSE zs[CHOOSE i \in hits : \A j \in hits : i <= j].zone_id

\* A plausible slip: the last matching zone of the list wins.
assign_zone_last_match(distance, zs) ==
    LET hits == {i \in DOMAIN zs : zs[i].start_distance_m <= distance
                                    /\ distance <= zs[i].end_distance_m}
    IN  IF hits = {} THEN NaN
        ELSE zs[CHOOSE i \in hits : \A j \in hits : i >= j].zone_id

\* A plausible slip: an event outside every zone falls into the first zone.
assign_zone_default_first(distance, zs) ==
    LET hits == {i \in DOMAIN zs : zs[i].start_distance_m <= distance
                                    /\ distance <= zs[i].end_distance_m}
    IN  IF zs = <<>> THEN NaN
        ELSE IF hits = {} THEN zs[1].zone_id
        ELSE zs[CHOOSE i \in hits : \A j \in hits : i <= j].zone_id

\* assign_zone / assign_to_zone: the loop over the zone list, returning at the
\* first zone whose closed interval holds the distance, None after the loop.
RECURSIVE assign_zone_from(_, _, _)
assign_zone_from(distance, zs, i) ==
    IF i > Len(zs) THEN NaN
    ELSE IF zs[i].start_distance_m <= distance /\ distance <= zs[i].end_distance_m
         THEN zs[i].zone_id
         ELSE assign_zone_from(distance, zs, i + 1)

assign_zone(distance, zs) == assign_zone_from(distance, zs, 1)

\* assign_to_zones: a copy of the events with track_distance and zone_id added.
assign_to_zones(events, cl, zs) ==
    [i \in DOMAIN events |->
        LET d == project_to_centerline(events[i].x_meters, events[i].y_meters, cl)
        IN  [vehicle_number |-> events[i].vehicle_number,
             x_meters |-> events[i].x_meters, y_meters |-> events[i].y_meters,
             track_distance |-> d, zone_id |-> assign_zone(d, zs)]]

\* ------------------------------------------------------------------------
\* Dispersion and driver summary (consistency_analysis.py)
\* ------------------------------------------------------------------------
\* The variance of a column with the given ddof, in 1/Scale^2 square metres:
\* sum((x - mean)^2) / (n - ddof), missing when n - ddof <= 0.
Variance(xs, ddof) ==
    LET n == Len(xs)
        S == SumSeq(xs)
        devs == [i \in DOMAIN xs |-> (n * xs[i] - S) * (n * xs[i] - S)]
    IN  IF n - ddof <= 0 THEN NaN
        ELSE (SumSeq(devs) * Scale * Scale) \div (n * n * (n - ddof))

\* A plausible slip: the population variance (ddof=0).
column_variance_population(xs) == Variance(xs, 0)

\* Series.std() squared: pandas' default is the sample estimate, ddof=1.
column_variance(xs) == Variance(xs, 1)

std(xs) == IF column_variance(xs) = NaN THEN NaN ELSE Sqrt(column_variance(xs))

\* np.sqrt(std_x**2 + std_y**2)
dispersion(xs, ys) ==
    IF column_variance(xs) = NaN \/ column_variance(ys) = NaN THEN NaN
    ELSE Sqrt(column_variance(xs) + column_variance(ys))

\* brake_events_df[brake_events_df["zone_id"].notna()]
in_zone(events) == SelectSeq(events, LAMBDA e : e.zone_id # NaN)

ZoneGroupKeys(events) ==
    SortedKeys({<<events[i].vehicle_number, events[i].zone_id>> : i \in DOMAIN events})

ZoneGroupOf(events, k) ==
    SelectSeq(events, LAMBDA e : e.vehicle_number = k[1] /\ e.zone_id = k[2])

\* A plausible slip: a single event is enough for a row.
min_group_size_one(group) == Len(group) < 1

\* if len(group) < 2: continue
too_small(group) == Len(group) < 2

dispersion_row(k, group) ==
    LET xs == [i \in DOMAIN group |-> group[i].x_meters]
        ys == [i \in DOMAIN group |-> group[i].y_meters]
    IN  [vehicle_number |-> k[1], zone_id |-> k[2],
         dispersion_meters |-> dispersion(xs, ys), brake_count |-> Len(group),
         std_x |-> std(xs), std_y |-> std(ys)]

\* calculate_dispersion_by_zone: one row per (vehicle, zone) group of at least
\* two zone-assigned events, in group-key order.
calculate_dispersion_by_zone(events) ==
    LET iz == in_zone(events)
        keys == ZoneGroupKeys(iz)
        results == [j \in 1..Len(keys) |->
                      LET group == ZoneGroupOf(iz, keys[j])
                      IN  IF too_small(group) THEN <<>>
                          ELSE <<dispersion_row(keys[j], group)>>]
    IN  Concat(results)

RECURSIVE SortedInts(_)
SortedInts(ns) ==
    IF ns = {} THEN <<>>
    ELSE LET m == CHOOSE a \in ns : \A b \in ns : a <= b
         IN  <<m>> \o SortedInts(ns \ {m})

\* A plausible slip: the mean weighted by the number of events of each zone.
mean_dispersion_weighted(rows) ==
    SumSeq([i \in DOMAIN rows |-> rows[i].dispersion_meters * rows[i].brake_count])
        \div SumSeq([i \in DOMAIN rows |-> rows[i].brake_count])

\* agg "mean" of dispersion_meters over the rows of one vehicle
mean_dispersion(rows) ==
    SumSeq([i \in DOMAIN rows |-> rows[i].dispersion_meters]) \div Len(rows)

\* calculate_driver_summary on a table that has rows
calculate_driver_summary(table) ==
    LET vs == SortedInts({table[i].vehicle_number : i \in DOMAIN table})
    IN  [j \in 1..Len(vs) |->
           LET rows == SelectSeq(table, LAMBDA r : r.vehicle_number = vs[j])
           IN  [vehicle_number |-> vs[j],
                avg_dispersion_meters |-> mean_dispersion(rows),
                zone_count |-> Len(rows),
                total_brake_count |-> SumSeq([i \in DOMAIN rows |-> rows[i].brake_count])]]

\* ---- Properties of brake onset detection --------------------------------
\* The samples of group g in the input table, and the sample with timestamp t.
SamplesOf(g) == {r \in Range(telemetry) : r.vehicle_number = g[1] /\ r.lap = g[2]}
SampleAt(g, t) == CHOOSE r \in SamplesOf(g) : r.timestamp = t
FirstTimestamp(g) == CHOOSE t \in {r.timestamp : r \in SamplesOf(g)} :
                         \A r \in SamplesOf(g) : t <= r.timestamp
\* Combined pressure: the larger populated channel, missing when both are.
Combined(r) ==
    LET ps == {r.pbrake_f, r.pbrake_r} \ {NaN}
    IN  IF ps = {} THEN NaN ELSE CHOOSE p \in ps : \A q \in ps : p >= q
\* A missing combined pressure is a lower bound: it is not at or above.
AtOrAbove(r) == Combined(r) # NaN /\ Combined(r) >= threshold
\* The timestamps at which the trace of g crosses upward.
Crossings(g) ==
    {t \in {r.timestamp : r \in SamplesOf(g)} :
        /\ t # FirstTimestamp(g)
        /\ AtOrAbove(SampleAt(g, t))
        /\ \E u \in {r.timestamp : r \in SamplesOf(g)} :
              /\ u < t
              /\ \A r \in SamplesOf(g) : ~(u < r.timestamp /\ r.timestamp < t)
              /\ ~AtOrAbove(SampleAt(g, u))}
NthCrossing(g, i) ==
    CHOOSE t \in Crossings(g) : Cardinality({u \in Crossings(g) : u <= t}) = i
EventsOf(g) == SelectSeq(df_events, LAMBDA e : e.vehicle_number = g[1] /\ e.lap = g[2])

\* C1: a group whose combined pressure trace, in timestamp order, starts
\* below the threshold and crosses upward exactly k times yields exactly k
\* events, the i-th carrying the timestamp, position and pressure of the
\* sample of the i-th upward crossing.
C1_RisingEdgeCount ==
    pc = "detected" =>
        \A g \in Groups :
            (SamplesOf(g) # {} /\ ~AtOrAbove(SampleAt(g, FirstTimestamp(g)))) =>
                /\ Len(EventsOf(g)) = Cardinality(Crossings(g))
                /\ \A i \in 1..Len(EventsOf(g)) :
                      LET e == EventsOf(g)[i]
                          r == SampleAt(g, NthCrossing(g, i))
                      IN  /\ e.timestamp = r.timestamp
                          /\ e.x_meters = r.x_meters
                          /\ e.y_meters = r.y_meters
                          /\ e.brake_pressure = Combined(r)

\* Witness of C1: a group starting below the threshold with two upward
\* crossings has been processed, from a table that did not arrive sorted.
C1_Witness ==
    /\ pc = "detected"
    /\ telemetry # sort_values(telemetry)
    /\ \E g \in Groups :
          /\ SamplesOf(g) # {}
          /\ ~AtOrAbove(SampleAt(g, FirstTimestamp(g)))
          /\ Cardinality(Crossings(g)) = 2
          /\ Len(EventsOf(g)) = 2

\* C2: no event is ever emitted at the first sample (in timestamp order) of
\* a (vehicle, lap) group, even when that sample is already at or above the
\* threshold.
C2_NoEventAtFirstSample ==
    pc = "detected" =>
        \A i \in DOMAIN df_events :
            df_events[i].timestamp #
                FirstTimestamp(<<df_events[i].vehicle_number, df_events[i].lap>>)

\* C3: a sample whose combined pressure equals the threshold is braking: a
\* step from a below-threshold sample to a sample exactly at the threshold
\* emits an event at that sample.
C3_ThresholdInclusive ==
    pc = "detected" =>
        \A g \in Groups : \A t \in Crossings(g) :
            Combined(SampleAt(g, t)) = threshold =>
                \E i \in DOMAIN df_events :
                    /\ df_events[i].vehicle_number = g[1]
                    /\ df_events[i].lap = g[2]
                    /\ df_events[i].timestamp = t
                    /\ df_events[i].brake_pressure = threshold

\* Witness of C3: an event has been emitted at a sample exactly at the
\* threshold that follows a below-threshold sample.
C3_Witness ==
    /\ pc = "detected"
    /\ \E g \in Groups : \E t \in Crossings(g) :
          /\ Combined(SampleAt(g, t)) = threshold
          /\ \E i \in DOMAIN df_events :
                /\ df_events[i].vehicle_number = g[1]
                /\ df_events[i].lap = g[2]
                /\ df_events[i].timestamp = t

\* ---- Zone assignment followed by the dispersion analysis -----------------
\* One brake onset event (vehicle, position) is appended to the events table.
AddEvent(v, pos) ==
    /\ pc = "events"
    /\ Len(brake_events_df) < MaxZoneEvents
    /\ brake_events_df' = Append(brake_events_df,
           [vehicle_number |-> v, x_meters |-> pos[1], y_meters |-> pos[2]])
    /\ UNCHANGED <<pc, zones, centerline, dispersion_by_zone, driver_summary,
                   detectVars, lapVars, trackVars>>

AssignToZones ==
    /\ pc = "events"
    /\ brake_events_df' = assign_to_zones(brake_events_df, centerline, zones)
    /\ pc' = "zoned"
    /\ UNCHANGED <<zones, centerline, dispersion_by_zone, driver_summary,
                   detectVars, lapVars, trackVars>>

CalculateDispersion ==
    /\ pc \in {"zoned", "csv"}
    /\ dispersion_by_zone' = calculate_dispersion_by_zone(brake_events_df)
    /\ pc' = "dispersion"
    /\ UNCHANGED <<zones, centerline, brake_events_df, driver_summary,
                   detectVars, lapVars, trackVars>>

\* pd.DataFrame([]) has no columns: grouping an empty dispersion table by
\* "vehicle_number" raises KeyError.
CalculateDriverSummary ==
    /\ pc \in {"dispersion", "table"}
    /\ IF dispersion_by_zone = <<>>
       THEN pc' = "KeyError" /\ UNCHANGED driver_summary
       ELSE /\ pc' = "summary"
            /\ driver_summary' = calculate_driver_summary(dispersion_by_zone)
    /\ UNCHANGED <<zones, centerline, brake_events_df, dispersion_by_zone,
                   detectVars, lapVars, trackVars>>

InitZones ==
    /\ pc = "events"
    /\ zones \in ZoneLists
    /\ centerline \in Centerlines
    /\ brake_events_df = <<>>
    /\ dispersion_by_zone = <<>>
    /\ driver_summary = <<>>
    /\ IdleDetect
    /\ IdleLap
    /\ IdleTrack

NextZones ==
    \/ \E v \in ZoneVehicles, pos \in ZonePositions : AddEvent(v, pos)
    \/ AssignToZones
    \/ CalculateDispersion
    \/ CalculateDriverSummary

SpecZones == InitZones /\ [][NextZones]_vars

\* ---- Dispersion analysis of a stored events table ------------------------
DispersionZoneIds == {3, NaN}
DispersionPositions == {<<0, 0>>, <<2, 0>>, <<0, 2>>, <<2, 2>>}

\* The events file is written vehicle by vehicle (the detector concatenates
\* its groups in vehicle order); within a vehicle rows come in any order.
EventLeq(a, b) == a.vehicle_number <= b.vehicle_number

\* load_brake_events: one row of brake_events.csv, its zone_id already set
\* (missing for an event outside every zone).
LoadZonedEvent(v, z, pos) ==
    /\ pc = "csv"
    /\ Len(brake_events_df) < MaxEvents
    /\ LET e == [vehicle_number |-> v, x_meters |-> pos[1], y_meters |-> pos[2],
                 track_distance |-> NaN, zone_id |-> z]
       IN  /\ brake_events_df # <<>> => EventLeq(brake_events_df[Len(brake_events_df)], e)
           /\ brake_events_df' = Append(brake_events_df, e)
    /\ UNCHANGED <<pc, zones, centerline, dispersion_by_zone, driver_summary,
                   detectVars, lapVars, trackVars>>

InitDispersion ==
    /\ pc = "csv"
    /\ zones = <<>>
    /\ centerline = <<>>
    /\ brake_events_df = <<>>
    /\ dispersion_by_zone = <<>>
    /\ driver_summary = <<>>
    /\ IdleDetect
    /\ IdleLap
    /\ IdleTrack

NextDispersion ==
    \/ \E v \in ZoneVehicles, z \in DispersionZoneIds, pos \in DispersionPositions :
           LoadZonedEvent(v, z, pos)
    \/ CalculateDispersion
    \/ CalculateDriverSummary

SpecDispersion == InitDispersion /\ [][NextDispersion]_vars

\* ---- Driver summary of a given dispersion table --------------------------
SummaryZoneIds == {1, 2, 3}
SummaryDispersions == {3 * Scale, 5 * Scale}
SummaryBrakeCounts == {2, 9}

\* One row of a per-zone dispersion table, in the (vehicle, zone) order in
\* which calculate_dispersion_by_zone emits rows; a pair has one row.
AddDispersionRow(v, z, d, c) ==
    /\ pc = "table"
    /\ dispersion_by_zone # <<>> =>
           LET last == dispersion_by_zone[Len(dispersion_by_zone)]
           IN  \/ last.vehicle_number < v
               \/ last.vehicle_number = v /\ last.zone_id < z
    /\ dispersion_by_zone' = Append(dispersion_by_zone,
           [vehicle_number |-> v, zone_id |-> z, dispersion_meters |-> d,
            brake_count |-> c, std_x |-> d, std_y |-> 0])
    /\ UNCHANGED <<pc, zones, centerline, brake_events_df, driver_summary,
                   detectVars, lapVars, trackVars>>

InitSummary ==
    /\ pc = "table"
    /\ zones = <<>>
    /\ centerline = <<>>
    /\ brake_events_df = <<>>
    /\ dispersion_by_zone = <<>>
    /\ driver_summary = <<>>
    /\ IdleDetect
    /\ IdleLap
    /\ IdleTrack

NextSummary ==
    \/ \E v \in ZoneVehicles, z \in SummaryZoneIds,
          d \in SummaryDispersions, c \in SummaryBrakeCounts : AddDispersionRow(v, z, d, c)
    \/ CalculateDriverSummary

SpecSummary == InitSummary /\ [][NextSummary]_vars
\* ---- Properties of zone assignment and dispersion ------------------------
Zoned == pc \in {"zoned", "dispersion", "summary", "KeyError"}
Dispersed == pc \in {"dispersion", "summary", "KeyError"}

\* The positions in the zone list of the zones whose closed interval holds d.
Holding(d) == {i \in DOMAIN zones : zones[i].start_distance_m <= d
                                     /\ d <= zones[i].end_distance_m}
FirstListed(I) == CHOOSE i \in I : \A j \in I : i <= j

\* C5: when the track distance of an event lies inside the intervals of
\* several zones, the event gets the id of the zone listed first, whatever
\* the order of the list.
C5_FirstMatchWins ==
    (Zoned /\ zones # <<>>) =>
        \A n \in DOMAIN brake_events_df :
            LET e == brake_events_df[n]
            IN  Cardinality(Holding(e.track_distance)) >= 2 =>
                    e.zone_id = zones[FirstListed(Holding(e.track_distance))].zone_id

\* Witness of C5: an event at distance 7, inside zones 1 and 2, with zone 2
\* listed before zone 1, has been assigned to zone 2.
C5_Witness ==
    /\ pc = "zoned"
    /\ \E n \in DOMAIN brake_events_df : \E i, j \in DOMAIN zones :
          /\ brake_events_df[n].track_distance = 7
          /\ i < j
          /\ zones[i].zone_id = 2
          /\ zones[j].zone_id = 1
          /\ brake_events_df[n].zone_id = 2

\* C6: zone intervals are closed at both ends: a distance equal to the start
\* or the end of a zone is assigned to that zone (unless a zone listed
\* earlier holds it too), and the shared boundary of two adjacent zones goes
\* to the one of the two listed first.
C6_ClosedIntervals ==
    (Zoned /\ zones # <<>>) =>
        \A n \in DOMAIN brake_events_df : \A i \in DOMAIN zones :
            LET e == brake_events_df[n]
                d == e.track_distance
            IN  (d = zones[i].start_distance_m \/ d = zones[i].end_distance_m) =>
                    /\ e.zone_id # NaN
                    /\ (\A j \in 1..(i - 1) : j \notin Holding(d)) =>
                           e.zone_id = zones[i].zone_id
                    /\ \A k \in DOMAIN zones :
                           (/\ d = zones[i].end_distance_m
                            /\ d = zones[k].start_distance_m
                            /\ Holding(d) = {i, k}) =>
                               e.zone_id = zones[IF i < k THEN i ELSE k].zone_id

\* Witness of C6: an event at distance 15, the end of zone 2 and the start of
\* zone 3, has been assigned with zone 3 listed before zone 2; and another
\* list holds zone 2 alone and assigns its end distance to it.
C6_Witness ==
    /\ pc = "zoned"
    /\ \E n \in DOMAIN brake_events_df :
          /\ brake_events_df[n].track_distance = 15
          /\ \/ /\ \E i, k \in DOMAIN zones :
                      i < k /\ zones[i].zone_id = 3 /\ zones[k].zone_id = 2
                /\ brake_events_df[n].zone_id = 3
             \/ /\ Len(zones) = 1
                /\ zones[1].zone_id = 2
                /\ brake_events_df[n].zone_id = 2

\* The events of vehicle v with zone id z, and sums over their positions.
PairEvents(v, z) ==
    {i \in DOMAIN brake_events_df :
        brake_events_df[i].vehicle_number = v /\ brake_events_df[i].zone_id = z}

RECURSIVE SumX(_)
SumX(I) == IF I = {} THEN 0
           ELSE LET i == CHOOSE k \in I : TRUE
                IN  brake_events_df[i].x_meters + SumX(I \ {i})
RECURSIVE SumXX(_)
SumXX(I) == IF I = {} THEN 0
            ELSE LET i == CHOOSE k \in I : TRUE
                 IN  brake_events_df[i].x_meters * brake_events_df[i].x_meters + SumXX(I \ {i})
RECURSIVE SumY(_)
SumY(I) == IF I = {} THEN 0
           ELSE LET i == CHOOSE k \in I : TRUE
                IN  brake_events_df[i].y_meters + SumY(I \ {i})
RECURSIVE SumYY(_)
SumYY(I) == IF I = {} THEN 0
            ELSE LET i == CHOOSE k \in I : TRUE
                 IN  brake_events_df[i].y_meters * brake_events_df[i].y_meters + SumYY(I \ {i})

\* Sample (n - 1) and population (n) variances in 1/Scale^2 square metres,
\* from the sums of the values and of their squares.
SampleVarX(I) == LET n == Cardinality(I)
                 IN  ((n * SumXX(I) - SumX(I) * SumX(I)) * Scale * Scale) \div (n * (n - 1))
SampleVarY(I) == LET n == Cardinality(I)
                 IN  ((n * SumYY(I) - SumY(I) * SumY(I)) * Scale * Scale) \div (n * (n - 1))
PopulationVarX(I) == LET n == Cardinality(I)
                     IN  ((n * SumXX(I) - SumX(I) * SumX(I)) * Scale * Scale) \div (n * n)
PopulationVarY(I) == LET n == Cardinality(I)
                     IN  ((n * SumYY(I) - SumY(I) * SumY(I)) * Scale * Scale) \div (n * n)

\* C7: an event whose track distance lies in no zone interval gets a missing
\* zone_id, without an error, and contributes to no row, count or standard
\* deviation of the dispersion table.
C7_UnassignedExcluded ==
    /\ Zoned =>
          \A n \in DOMAIN brake_events_df :
              Holding(brake_events_df[n].track_distance) = {} =>
                  brake_events_df[n].zone_id = NaN
    /\ Dispersed =>
          \A r \in DOMAIN dispersion_by_zone :
              LET row == dispersion_by_zone[r]
                  I == PairEvents(row.vehicle_number, row.zone_id)
              IN  /\ row.zone_id # NaN
                  /\ \A i \in I : Holding(brake_events_df[i].track_distance) # {}
                  /\ row.brake_count = Cardinality(I)
                  /\ row.std_x = Sqrt(SampleVarX(I))
                  /\ row.std_y = Sqrt(SampleVarY(I))

\* Witness of C7: the dispersion table has a row for a vehicle that also has
\* an event outside every zone.
C7_Witness ==
    /\ pc = "dispersion"
    /\ zones # <<>>
    /\ \E n \in DOMAIN brake_events_df : \E r \in DOMAIN dispersion_by_zone :
          /\ Holding(brake_events_df[n].track_distance) = {}
          /\ brake_events_df[n].zone_id = NaN
          /\ dispersion_by_zone[r].vehicle_number = brake_events_df[n].vehicle_number

\* The four events of the scenario: vehicle 7, zone 3, the corners of a square.
ScenarioTable ==
    /\ Len(brake_events_df) = 4
    /\ \A i \in DOMAIN brake_events_df :
          brake_events_df[i].vehicle_number = 7 /\ brake_events_df[i].zone_id = 3
    /\ {<<brake_events_df[i].x_meters, brake_events_df[i].y_meters>> :
           i \in DOMAIN brake_events_df} = {<<0, 0>>, <<2, 0>>, <<0, 2>>, <<2, 2>>}

\* C4 as stated: the standard deviations are population estimates: the
\* scenario gives std_x = std_y = 1.0, dispersion sqrt(2), brake_count 4, and
\* dispersion^2 is the sum of the population variances of x and y.
C4_PopulationStd ==
    pc = "dispersion" =>
        /\ ScenarioTable =>
              /\ Len(dispersion_by_zone) = 1
              /\ dispersion_by_zone[1].std_x = Scale
              /\ dispersion_by_zone[1].std_y = Scale
              /\ dispersion_by_zone[1].dispersion_meters = Sqrt(2 * Scale * Scale)
              /\ dispersion_by_zone[1].brake_count = 4
        /\ \A r \in DOMAIN dispersion_by_zone :
              LET row == dispersion_by_zone[r]
                  I == PairEvents(row.vehicle_number, row.zone_id)
              IN  /\ row.std_x = Sqrt(PopulationVarX(I))
                  /\ row.std_y = Sqrt(PopulationVarY(I))
                  /\ row.dispersion_meters = Sqrt(PopulationVarX(I) + PopulationVarY(I))

\* C4 amended: the standard deviations are sample estimates (ddof = 1): the
\* scenario gives std_x = std_y = sqrt(4/3), dispersion sqrt(8/3),
\* brake_count 4, and dispersion^2 is the sum of the sample variances.
C4_SampleStd ==
    pc = "dispersion" =>
        /\ ScenarioTable =>
              /\ Len(dispersion_by_zone) = 1
              /\ dispersion_by_zone[1].std_x = Sqrt((4 * Scale * Scale) \div 3)
              /\ dispersion_by_zone[1].std_y = Sqrt((4 * Scale * Scale) \div 3)
              /\ dispersion_by_zone[1].dispersion_meters =
                     Sqrt(2 * ((4 * Scale * Scale) \div 3))
              /\ dispersion_by_zone[1].brake_count = 4
        /\ \A r \in DOMAIN dispersion_by_zone :
              LET row == dispersion_by_zone[r]
                  I == PairEvents(row.vehicle_number, row.zone_id)
              IN  /\ row.std_x = Sqrt(SampleVarX(I))
                  /\ row.std_y = Sqrt(SampleVarY(I))
                  /\ row.dispersion_meters = Sqrt(SampleVarX(I) + SampleVarY(I))
                  /\ row.brake_count = Cardinality(I)

\* Witness of C4: the dispersion of the scenario table has been computed.
C4_Witness ==
    /\ pc = "dispersion"
    /\ ScenarioTable
    /\ Len(dispersion_by_zone) = 1
    /\ dispersion_by_zone[1].std_x > Scale

\* C8: the dispersion table has a row for a (vehicle, zone) pair if and only
\* if the pair has at least 2 zone-assigned events; the row is unique and its
\* dispersion is not missing.
C8_MinimumSampleRule ==
    Dispersed =>
        \A v \in ZoneVehicles : \A z \in DispersionZoneIds \ {NaN} :
            LET rows == {r \in DOMAIN dispersion_by_zone :
                            /\ dispersion_by_zone[r].vehicle_number = v
                            /\ dispersion_by_zone[r].zone_id = z}
            IN  /\ Cardinality(rows) = (IF Cardinality(PairEvents(v, z)) >= 2 THEN 1 ELSE 0)
                /\ \A r \in rows :
                      /\ dispersion_by_zone[r].dispersion_meters # NaN
                      /\ dispersion_by_zone[r].std_x # NaN
                      /\ dispersion_by_zone[r].std_y # NaN

\* Witness of C8: one pair with exactly 1 event has no row while another
\* pair with exactly 2 events has one.
C8_Witness ==
    /\ pc = "dispersion"
    /\ Cardinality(PairEvents(7, 3)) = 1
    /\ Cardinality(PairEvents(8, 3)) = 2
    /\ Len(dispersion_by_zone) = 1
    /\ dispersion_by_zone[1].vehicle_number = 8

\* C9: avg_dispersion_meters of a vehicle is the unweighted mean of its
\* per-zone dispersion values (zones {3.0, 5.0} give 4.0 whatever their
\* brake counts), zone_count the number of its rows, total_brake_count the
\* sum of their brake counts.
RowsOf(v) == {r \in DOMAIN dispersion_by_zone : dispersion_by_zone[r].vehicle_number = v}

RECURSIVE SumDispersion(_)
SumDispersion(I) == IF I = {} THEN 0
                    ELSE LET i == CHOOSE k \in I : TRUE
                         IN  dispersion_by_zone[i].dispersion_meters + SumDispersion(I \ {i})
RECURSIVE SumBrakeCount(_)
SumBrakeCount(I) == IF I = {} THEN 0
                    ELSE LET i == CHOOSE k \in I : TRUE
                         IN  dispersion_by_zone[i].brake_count + SumBrakeCount(I \ {i})

C9_UnweightedMean ==
    pc = "summary" =>
        \A v \in ZoneVehicles :
            LET I == RowsOf(v)
                S == {k \in DOMAIN driver_summary : driver_summary[k].vehicle_number = v}
            IN  /\ Cardinality(S) = (IF I = {} THEN 0 ELSE 1)
                /\ \A k \in S :
                      LET avg == driver_summary[k].avg_dispersion_meters
                      IN  /\ Cardinality(I) * avg <= SumDispersion(I)
                          /\ SumDispersion(I) < Cardinality(I) * (avg + 1)
                          /\ ({dispersion_by_zone[i].dispersion_meters : i \in I}
                                  = {3 * Scale, 5 * Scale} /\ Cardinality(I) = 2)
                                 => avg = 4 * Scale
                          /\ driver_summary[k].zone_count = Cardinality(I)
                          /\ driver_summary[k].total_brake_count = SumBrakeCount(I)

\* Witness of C9: a vehicle with a 3.0 m zone of 9 events and a 5.0 m zone of
\* 2 events has been summarised with a mean of 4.0 m.
C9_Witness ==
    /\ pc = "summary"
    /\ \E k \in DOMAIN driver_summary : \E i, j \in RowsOf(driver_summary[k].vehicle_number) :
          /\ RowsOf(driver_summary[k].vehicle_number) = {i, j}
          /\ dispersion_by_zone[i].dispersion_meters = 3 * Scale
          /\ dispersion_by_zone[i].brake_count = 9
          /\ dispersion_by_zone[j].dispersion_meters = 5 * Scale
          /\ dispersion_by_zone[j].brake_count = 2
          /\ driver_summary[k].avg_dispersion_meters = 4 * Scale
          /\ driver_summary[k].total_brake_count = 11
\* ------------------------------------------------------------------------
\* Lap-time conversion (consistency_analysis.py, add_lap_times)
\* ------------------------------------------------------------------------
\* A cell of the FL_TIME column is a string (a sequence of characters) or
\* missing.  Seconds are kept in thousandths.
Digits == {"0", "1", "2", "3", "4", "5", "6", "7", "8", "9"}
Alphabet == {"1", "3", ":", ".", "D"}
MissingCell == <<"NaN">>
ScenarioCells == {<<"1", ":", "3", "7", ".", "4", "2", "8">>, <<"D", "N", "F">>, MissingCell}

DigitValue(c) ==
    CASE c = "0" -> 0 [] c = "1" -> 1 [] c = "2" -> 2 [] c = "3" -> 3 [] c = "4" -> 4
      [] c = "5" -> 5 [] c = "6" -> 6 [] c = "7" -> 7 [] c = "8" -> 8 [] c = "9" -> 9

\* str.split(":"): the fields between all the colons
RECURSIVE SplitFrom(_, _, _)
SplitFrom(str, i, field) ==
    IF i > Len(str) THEN <<field>>
    ELSE IF str[i] = ":" THEN <<field>> \o SplitFrom(str, i + 1, <<>>)
    ELSE SplitFrom(str, i + 1, Append(field, str[i]))

split(str) == SplitFrom(str, 1, <<>>)

\* int(field) succeeds: a non-empty run of digits
IsInt(f) == f # <<>> /\ \A i \in DOMAIN f : f[i] \in Digits

RECURSIVE IntValue(_)
IntValue(f) == IF f = <<>> THEN 0
               ELSE 10 * IntValue(SubSeq(f, 1, Len(f) - 1)) + DigitValue(f[Len(f)])

\* float(field) succeeds: digits with at most one point and at least one digit
IsFloat(f) ==
    /\ \A i \in DOMAIN f : f[i] \in Digits \cup {"."}
    /\ Cardinality({i \in DOMAIN f : f[i] = "."}) <= 1
    /\ \E i \in DOMAIN f : f[i] \in Digits

\* float(field) in thousandths (further decimals are below the precision)
FloatMillis(f) ==
    LET dots == {i \in DOMAIN f : f[i] = "."}
        dot == IF dots = {} THEN Len(f) + 1 ELSE CHOOSE i \in dots : TRUE
        whole == SubSeq(f, 1, dot - 1)
        frac == SubSeq(f, dot + 1, Len(f))
        d(k) == IF k <= Len(frac) THEN DigitValue(frac[k]) ELSE 0
    IN  1000 * IntValue(whole) + 100 * d(1) + 10 * d(2) + d(3)

\* The body of the try block raises (IndexError, ValueError).
try_raises(parts) ==
    \/ ~IsInt(parts[1])
    \/ Len(parts) < 2
    \/ ~IsFloat(parts[2])

\* lap_time_to_seconds: missing for a missing or empty cell and whenever the
\* try block raises, else minutes * 60 + seconds.
lap_time_to_seconds(cell) ==
    IF cell = MissingCell \/ cell = <<>> THEN NaN
    ELSE LET parts == split(cell)
         IN  IF try_raises(parts) THEN NaN
             ELSE IntValue(parts[1]) * 60000 + FloatMillis(parts[2])

\* One more character of the cell is read.
AppendChar(c) ==
    /\ pc = "cell"
    /\ time_str \notin ScenarioCells
    /\ Len(time_str) < MaxLen
    /\ time_str' = Append(time_str, c)
    /\ UNCHANGED <<pc, fastest_lap_seconds, detectVars, consistencyVars, trackVars>>

\* The cell is one of the named values: "1:37.428", "DNF", or missing.
ReadScenarioCell(cell) ==
    /\ pc = "cell"
    /\ time_str = <<>>
    /\ time_str' = cell
    /\ UNCHANGED <<pc, fastest_lap_seconds, detectVars, consistencyVars, trackVars>>

\* usac_clean["fastest_lap_time"].apply(lap_time_to_seconds) on the cell;
\* the bare except leaves no exception to propagate.
ConvertLapTime ==
    /\ pc = "cell"
    /\ fastest_lap_seconds' = lap_time_to_seconds(time_str)
    /\ pc' = "converted"
    /\ UNCHANGED <<time_str, detectVars, consistencyVars, trackVars>>

InitLapTime ==
    /\ pc = "cell"
    /\ time_str = <<>>
    /\ fastest_lap_seconds = NaN
    /\ IdleDetect
    /\ IdleConsistency
    /\ IdleTrack

NextLapTime ==
    \/ \E c \in Alphabet : AppendChar(c)
    \/ \E cell \in ScenarioCells : ReadScenarioCell(cell)
    \/ ConvertLapTime

SpecLapTime == InitLapTime /\ [][NextLapTime]_vars

\* ---- Properties of the lap-time conversion -------------------------------
\* A lap-time string read as the format says: split at the first colon, an
\* integer number of minutes before it and a decimal number of seconds after.
Colons(str) == {i \in DOMAIN str : str[i] = ":"}
FirstColon(str) == CHOOSE i \in Colons(str) : \A j \in Colons(str) : i <= j
MinutesPart(str) == SubSeq(str, 1, FirstColon(str) - 1)
SecondsPart(str) == SubSeq(str, FirstColon(str) + 1, Len(str))
Parseable(str) ==
    /\ str # MissingCell
    /\ Colons(str) # {}
    /\ IsInt(MinutesPart(str))
    /\ IsFloat(SecondsPart(str))

\* C10: "M:SS.mmm" converts to M*60 + SS.mmm seconds ("1:37.428" gives
\* 97.428) and every missing, empty or non-parseable string converts to a
\* missing value, without an exception.
C10_LapTimeConversion ==
    pc = "converted" =>
        /\ time_str = <<"1", ":", "3", "7", ".", "4", "2", "8">> =>
               fastest_lap_seconds = 97428
        /\ Parseable(time_str) =>
               fastest_lap_seconds =
                   60000 * IntValue(MinutesPart(time_str)) + FloatMillis(SecondsPart(time_str))
        /\ ~Parseable(time_str) => fastest_lap_seconds = NaN

\* ---- Nearest-point projection on its own ---------------------------------
MaxPoints == 3
\* Centerlines handed to the projection: none at all, a single station, an
\* open line, and a closed ring whose last station repeats the first
\* (generate_track_outline appends the first point at the end).
ProjectCenterlines ==
    { <<>>,
      << <<0, 0>> >>,
      << <<0, 0>>, <<2, 0>>, <<4, 0>> >>,
      << <<0, 0>>, <<2, 0>>, <<2, 2>>, <<0, 2>>, <<0, 0>> >> }
QueryPoints == {<<1, 0>>, <<1, 1>>, <<3, 1>>, <<5, 5>>}

\* project_to_centerline over the arrays points_x, points_y
project_points(pts, cl) ==
    [k \in DOMAIN pts |-> project_to_centerline(pts[k][1], pts[k][2], cl)]

\* The next query point is station i of the centerline itself.
TakeStation(i) ==
    /\ pc = "points"
    /\ Len(points) < MaxPoints
    /\ i \in DOMAIN centerline
    /\ points' = Append(points, centerline[i])
    /\ UNCHANGED <<pc, track_distances, centerline, zones, brake_events_df,
                   dispersion_by_zone, driver_summary, detectVars, lapVars,
                   assignVars, resampleVars, cacheVars, analysisVars>>

\* The next query point lies anywhere, on or off the track.
AddQueryPoint(pos) ==
    /\ pc = "points"
    /\ Len(points) < MaxPoints
    /\ points' = Append(points, pos)
    /\ UNCHANGED <<pc, track_distances, centerline, zones, brake_events_df,
                   dispersion_by_zone, driver_summary, detectVars, lapVars,
                   assignVars, resampleVars, cacheVars, analysisVars>>

\* np.argmin raises ValueError on an empty distance array, which the loop
\* reaches as soon as there is one query point and no station.
ProjectToCenterline ==
    /\ pc = "points"
    /\ IF centerline = <<>> /\ points # <<>>
       THEN pc' = "ValueError" /\ UNCHANGED track_distances
       ELSE /\ pc' = "projected"
            /\ track_distances' = project_points(points, centerline)
    /\ UNCHANGED <<points, centerline, zones, brake_events_df,
                   dispersion_by_zone, driver_summary, detectVars, lapVars,
                   assignVars, resampleVars, cacheVars, analysisVars>>

InitProject ==
    /\ pc = "points"
    /\ centerline \in ProjectCenterlines
    /\ points = <<>>
    /\ track_distances = <<>>
    /\ zones = <<>>
    /\ brake_events_df = <<>>
    /\ dispersion_by_zone = <<>>
    /\ driver_summary = <<>>
    /\ IdleDetect
    /\ IdleLap
    /\ IdleAssign
    /\ IdleResample
    /\ IdleCache
    /\ IdleAnalysis

NextProject ==
    \/ \E i \in 1..5 : TakeStation(i)
    \/ \E pos \in QueryPoints : AddQueryPoint(pos)
    \/ ProjectToCenterline

SpecProject == InitProject /\ [][NextProject]_vars

\* ---- Properties of the projection ----------------------------------------
\* Arc length from the first station to station i, and of the whole line.
StationArc(i) == SumSeq([j \in 1..(i - 1) |-> segment_length(centerline, j)])
TotalLength == IF centerline = <<>> THEN 0 ELSE StationArc(Len(centerline))
QueryDistance(k, i) == SquaredDistance(centerline, i, points[k][1], points[k][2])
\* Query k lies on the lap at station i.
OnStation(k, i) == i \in DOMAIN centerline /\ points[k] = centerline[i]

\* C11: two points taken from the centerline's own stations in lap order
\* (the closing duplicate of the first point included) get track distances
\* that do not decrease in that order.
C11_MonotonicProjection ==
    pc = "projected" =>
        \A j \in DOMAIN points : \A k \in DOMAIN points :
            (/\ j < k
             /\ \E a \in DOMAIN centerline : \E b \in DOMAIN centerline :
                    a <= b /\ OnStation(j, a) /\ OnStation(k, b))
            => track_distances[j] <= track_distances[k]

\* Station i is a nearest station of query k, and no earlier one is as near.
FirstNearest(k, i) ==
    /\ \A j \in DOMAIN centerline : QueryDistance(k, i) <= QueryDistance(k, j)
    /\ \A j \in 1..(i - 1) : QueryDistance(k, j) > QueryDistance(k, i)

ProjectionContract ==
    /\ DOMAIN track_distances = DOMAIN points
    /\ \A k \in DOMAIN points :
          /\ 0 <= track_distances[k]
          /\ track_distances[k] <= TotalLength
          /\ \E i \in DOMAIN centerline :
                FirstNearest(k, i) /\ track_distances[k] = StationArc(i)

MaxCalls == 2

\* A plausible slip: no copy is taken, the local name still refers to the
\* caller's table.
copy_omitted(heap, ref) == [heap |-> heap, ref |-> ref]

\* brake_events_df.copy(): a new table object holding the same rows.  Table
\* objects live in heap, a sequence indexed by object reference.
copy(heap, ref) == [heap |-> Append(heap, heap[ref]), ref |-> Len(heap) + 1]

\* One call assign_to_zones(brake_events_df, centerline_x, centerline_y) on
\* the caller's table (object 1): the zone list is loaded, the local name is
\* rebound to a copy, the two columns are assigned to whatever the local name
\* refers to, and that object is returned.
CallAssignToZones ==
    /\ pc \in {"events", "called"}
    /\ Len(assigned) < MaxCalls
    /\ LET local == copy(<<brake_events_df>>, 1)
           after == [local.heap EXCEPT ![local.ref] =
                         assign_to_zones(local.heap[local.ref], centerline, zones)]
       IN  /\ brake_events_df' = after[1]
           /\ assigned' = Append(assigned, after[local.ref])
    /\ pc' = "called"
    /\ UNCHANGED <<zones, centerline, dispersion_by_zone, driver_summary,
                   detectVars, lapVars, projectVars, resampleVars, cacheVars, analysisVars>>

InitAssign ==
    /\ pc = "events"
    /\ zones \in ZoneLists
    /\ centerline \in Centerlines
    /\ brake_events_df = <<>>
    /\ dispersion_by_zone = <<>>
    /\ driver_summary = <<>>
    /\ assigned = <<>>
    /\ IdleDetect
    /\ IdleLap
    /\ IdleProject
    /\ IdleResample
    /\ IdleCache
    /\ IdleAnalysis

NextAssign ==
    \/ \E v \in ZoneVehicles, pos \in ZonePositions : AddEvent(v, pos)
    \/ CallAssignToZones

SpecAssign == InitAssign /\ [][NextAssign]_vars

\* ---- Properties of assign_to_zones as a function -------------------------
EventColumns == {"vehicle_number", "x_meters", "y_meters"}

\* Row i of a returned table is input event i with the two new columns.
RowOfEvent(out, i) ==
    /\ \A c \in EventColumns : out[i][c] = brake_events_df[i][c]
    /\ DOMAIN out[i] = EventColumns \cup {"track_distance", "zone_id"}
    /\ out[i].track_distance # NaN
    /\ out[i].track_distance >= 0

MaxPathLen == 4
PathPositions == {<<0, 0>>, <<2, 0>>, <<3, 0>>, <<4, 0>>, <<2, 2>>, <<30, 0>>}
Steps == {1, 2}
\* The default spike_threshold_m, in metres.
spike_threshold_m == 10

\* np.sqrt(dx**2 + dy**2) of the segment from point i to point i + 1
segment_dist(p, i) ==
    Sqrt(Scale * Scale * ((p[i + 1][1] - p[i][1]) * (p[i + 1][1] - p[i][1])
                          + (p[i + 1][2] - p[i][2]) * (p[i + 1][2] - p[i][2])))

spike_mask(p, i) == segment_dist(p, i) > spike_threshold_m * Scale

\* segment_dist < 1e-6: points on the metre grid are that close only when
\* they are the same point.
duplicate_mask(p, i) == segment_dist(p, i) = 0

\* x[keep_mask] with keep_mask[indices + 1] = False: every point that ends a
\* segment of dropped is removed, in one pass.
RECURSIVE KeepFrom(_, _, _)
KeepFrom(p, dropped, i) ==
    IF i > Len(p) THEN <<>>
    ELSE (IF i > 1 /\ (i - 1) \in dropped THEN <<>> ELSE <<p[i]>>)
         \o KeepFrom(p, dropped, i + 1)

remove_spikes(p) ==
    KeepFrom(p, {i \in 1..(Len(p) - 1) : spike_mask(p, i)}, 1)

remove_duplicates(p) ==
    KeepFrom(p, {i \in 1..(Len(p) - 1) : duplicate_mask(p, i)}, 1)

cleanup(p) == remove_duplicates(remove_spikes(p))

\* np.concatenate([[0], np.cumsum(segment_dist)])[i]
RECURSIVE cumulative_dist(_, _)
cumulative_dist(p, i) ==
    IF i = 1 THEN 0 ELSE cumulative_dist(p, i - 1) + segment_dist(p, i - 1)

total_distance(p) == cumulative_dist(p, Len(p))

\* A plausible slip: the station that ends the path is not counted.
num_stations_open(total, step_m) ==
    (total + step_m * Scale - 1) \div (step_m * Scale)

\* int(np.ceil(total_distance / step_m)) + 1
num_stations(total, step_m) ==
    (total + step_m * Scale - 1) \div (step_m * Scale) + 1

\* np.linspace(0, total_distance, num_stations)[k]
uniform_dist(total, num, k) ==
    IF num = 1 THEN 0 ELSE (total * (k - 1)) \div (num - 1)

\* interp1d(kind="linear", fill_value="extrapolate"): np.searchsorted gives
\* the first station not before s, clipped so that a segment lies below it.
hi_index(p, s) ==
    LET first == CHOOSE j \in 1..(Len(p) + 1) :
                     /\ j <= Len(p) => cumulative_dist(p, j) >= s
                     /\ \A l \in 1..(j - 1) : cumulative_dist(p, l) < s
    IN  IF first < 2 THEN 2 ELSE IF first > Len(p) THEN Len(p) ELSE first

interp(p, s, c) ==
    LET hi == hi_index(p, s)
        lo == hi - 1
    IN  p[lo][c] * Scale
        + ((p[hi][c] - p[lo][c]) * Scale * (s - cumulative_dist(p, lo)))
              \div (cumulative_dist(p, hi) - cumulative_dist(p, lo))

\* resample_by_distance on a path that keeps two or more points
resample_by_distance(p0, step_m) ==
    LET p == cleanup(p0)
        total == total_distance(p)
        num == num_stations(total, step_m)
        stations == [k \in 1..num |-> uniform_dist(total, num, k)]
    IN  [step_m |-> step_m,
         x |-> [k \in 1..num |-> interp(p, stations[k], 1)],
         y |-> [k \in 1..num |-> interp(p, stations[k], 2)],
         distances |-> stations]

\* With a single point left there is no segment to interpolate on: the slope
\* is 0/0 and the one station comes back as NaN.
resample_single_point(step_m) ==
    [step_m |-> step_m, x |-> <<NaN>>, y |-> <<NaN>>, distances |-> <<0>>]

\* One more raw GPS position of the lap.
AppendPoint(pos) ==
    /\ pc = "path"
    /\ Len(path) < MaxPathLen
    /\ path' = Append(path, pos)
    /\ UNCHANGED <<pc, resampled, detectVars, consistencyVars, lapVars,
                   projectVars, assignVars, cacheVars, analysisVars>>

\* resample_by_distance(x, y, step_m).  Older interp1d releases refuse a
\* single-point table with ValueError, newer ones interpolate it to NaN.
ResampleByDistance(step_m) ==
    /\ pc = "path"
    /\ path # <<>>
    /\ IF Len(cleanup(path)) = 1
       THEN \/ pc' = "ValueError" /\ UNCHANGED resampled
            \/ pc' = "resampled" /\ resampled' = resample_single_point(step_m)
       ELSE /\ pc' = "resampled"
            /\ resampled' = resample_by_distance(path, step_m)
    /\ UNCHANGED <<path, detectVars, consistencyVars, lapVars,
                   projectVars, assignVars, cacheVars, analysisVars>>

InitResample ==
    /\ pc = "path"
    /\ path = <<>>
    /\ resampled = <<>>
    /\ IdleDetect
    /\ IdleConsistency
    /\ IdleLap
    /\ IdleProject
    /\ IdleAssign
    /\ IdleCache
    /\ IdleAnalysis

NextResample ==
    \/ \E pos \in PathPositions : AppendPoint(pos)
    \/ \E step_m \in Steps : ResampleByDistance(step_m)

SpecResample == InitResample /\ [][NextResample]_vars


\* ---- Properties of the resampling ----------------------------------------
\* Arc length of the path left after cleanup, in 1/Scale metres.
CleanedLength == total_distance(cleanup(path))
Ceil(a, b) == IF a % b = 0 THEN a \div b ELSE a \div b + 1
OutputPoint(k) == <<resampled.x[k], resampled.y[k]>>

\* C15: the result has ceil(total_length/step_m)+1 points, its stations rise
\* strictly from 0 to total_length, and no two consecutive result points
\* coincide, whatever the input path (doubling back, or cleaned down to one
\* point).
C15_ResampleContract ==
    pc \in {"resampled", "ValueError"} =>
        /\ pc = "resampled"
        /\ Len(resampled.x) = Ceil(CleanedLength, resampled.step_m * Scale) + 1
        /\ Len(resampled.y) = Len(resampled.x)
        /\ Len(resampled.distances) = Len(resampled.x)
        /\ resampled.distances[1] = 0
        /\ resampled.distances[Len(resampled.distances)] = CleanedLength
        /\ \A k \in 1..(Len(resampled.x) - 1) :
              /\ resampled.distances[k] < resampled.distances[k + 1]
              /\ OutputPoint(k) # OutputPoint(k + 1)

\* Consecutive points of the input are exactly s metres apart.
Uniform(s) ==
    \A i \in 1..(Len(path) - 1) :
        (path[i + 1][1] - path[i][1]) * (path[i + 1][1] - path[i][1])
        + (path[i + 1][2] - path[i][2]) * (path[i + 1][2] - path[i][2]) = s * s

\* C16: resampling with step s (not above the spike threshold) a sequence of
\* two or more points that are already exactly s apart returns as many
\* points, at the same positions.
C16_ResampleIdempotent ==
    (/\ pc \in {"resampled", "ValueError"}
     /\ Len(path) >= 2
     /\ \E s \in Steps : s <= spike_threshold_m /\ Uniform(s)
                         /\ (pc = "resampled" => resampled.step_m = s))
    => /\ pc = "resampled"
       /\ Len(resampled.x) = Len(path)
       /\ \A k \in DOMAIN path :
             OutputPoint(k) = <<path[k][1] * Scale, path[k][2] * Scale>>

\* A uniformly spaced path with a corner has been resampled at its own
\* spacing.
C16_Witness ==
    /\ pc = "resampled"
    /\ Len(path) >= 3
    /\ Uniform(resampled.step_m)
    /\ \E i \in DOMAIN path : \E j \in DOMAIN path :
          path[i][1] # path[j][1] /\ path[i][2] # path[j][2]


\* ------------------------------------------------------------------------
\* Periodic smoothing and the centerline builders
\* ------------------------------------------------------------------------
\* Defaults of generate_track_outline and build_track_outline_figure.
resample_step_m == 2
savgol_window == 31
wrap_count == 25

Min(a, b) == IF a <= b THEN a ELSE b

\* Python slices xs[-n:], xs[:n] and xs[n:-n]
\* (xs[-0:] is the whole array and xs[0:-0] is empty, since -0 is 0).
LastN(xs, n) == IF n = 0 THEN xs ELSE SubSeq(xs, Len(xs) - Min(n, Len(xs)) + 1, Len(xs))
FirstN(xs, n) == SubSeq(xs, 1, Min(n, Len(xs)))
Middle(xs, n) ==
    IF n = 0 \/ Len(xs) - n < n + 1 THEN <<>> ELSE SubSeq(xs, n + 1, Len(xs) - n)

\* Savitzky-Golay weights of a cubic fit over the window -m..m, as
\* numerator(j) / denominator.
savgol_numerator(m, j) == 3 * (3 * m * m + 3 * m - 1 - 5 * j * j)
savgol_denominator(m) == (2 * m + 3) * (2 * m + 1) * (2 * m - 1)

\* savgol_filter(xs, window_length, 3, mode="nearest"): beyond either end the
\* nearest sample is repeated.
savgol_filter(xs, window_length) ==
    LET m == (window_length - 1) \div 2
        at(i) == xs[IF i < 1 THEN 1 ELSE IF i > Len(xs) THEN Len(xs) ELSE i]
    IN  [i \in DOMAIN xs |->
            SumSeq([k \in 1..(2 * m + 1) |->
                       savgol_numerator(m, k - m - 1) * at(i + k - m - 1)])
                \div savgol_denominator(m)]

\* (len(x) // 3) | 1
reduced_window(n) == IF (n \div 3) % 2 = 0 THEN n \div 3 + 1 ELSE n \div 3

\* smooth_periodic on one coordinate array
smooth_periodic(xs, window_length, wrap) ==
    LET odd == IF window_length % 2 = 0 THEN window_length + 1 ELSE window_length
        window == IF odd >= Len(xs) THEN reduced_window(Len(xs)) ELSE odd
    IN  IF odd >= Len(xs) /\ window < 5 THEN xs
        ELSE Middle(savgol_filter(LastN(xs, wrap) \o xs \o FirstN(xs, wrap), window),
                    wrap)


\* The reference lap's positions in timestamp order: an open L, a lap that
\* stops short of its start, a lap that returns to its start, and a lap long
\* enough for the smoothing window to apply.
OutlineLaps ==
    { << <<0, 0>>, <<2, 0>>, <<2, 2>> >>,
      << <<0, 0>>, <<4, 0>>, <<4, 4>>, <<0, 4>> >>,
      << <<0, 0>>, <<4, 0>>, <<4, 4>>, <<0, 4>>, <<0, 0>> >>,
      << <<0, 0>>, <<6, 0>>, <<6, 6>>, <<0, 6>>, <<0, 1>> >> }
MaxRuns == 3

\* Phase 1 and phase 2: resample_by_distance, then smooth_periodic on x and y
smoothed_lap(lap) ==
    LET r == resample_by_distance(lap, resample_step_m)
    IN  [x |-> smooth_periodic(r.x, savgol_window, wrap_count),
         y |-> smooth_periodic(r.y, savgol_window, wrap_count)]

\* np.append(x_smooth, x_smooth[0]), np.append(y_smooth, y_smooth[0])
close_loop(c) == [x |-> Append(c.x, c.x[1]), y |-> Append(c.y, c.y[1])]

\* x_smooth[:-1], y_smooth[:-1]
open_loop(c) == [x |-> SubSeq(c.x, 1, Len(c.x) - 1), y |-> SubSeq(c.y, 1, Len(c.y) - 1)]

\* save_track_data: one CSV row per point, columns x_meters and y_meters
save_track_data(c) == [i \in DOMAIN c.x |-> [x_meters |-> c.x[i], y_meters |-> c.y[i]]]

\* pd.read_csv(center_path) and the two columns as arrays
read_track_data(df_center) ==
    [x |-> [i \in DOMAIN df_center |-> df_center[i].x_meters],
     y |-> [i \in DOMAIN df_center |-> df_center[i].y_meters]]

\* The band file has one row per station of the open centerline; the widths
\* of the band are not part of the model.
save_track_band(c) == [i \in DOMAIN c.x |-> [station |-> <<c.x[i], c.y[i]>>]]

Returned(fn, mode, c) == [fn |-> fn, mode |-> mode, x |-> c.x, y |-> c.y]
Written(f, content) == [file |-> f, run |-> Len(run_log) + 1, content |-> content]

\* deliverables generate_track_outline: compute the closed centerline, then
\* return the persisted one if track_centerline.csv exists, else persist the
\* computed one.  Indexing [0] of an empty array raises IndexError.
GenerateTrackOutline ==
    /\ pc \in {"lap", "outline"}
    /\ Len(run_log) < MaxRuns
    /\ LET c == smoothed_lap(path)
           f == cache_file["track_centerline.csv"]
       IN  IF c.x = <<>> \/ (f.exists /\ f.rows = <<>>)
           THEN pc' = "IndexError" /\ UNCHANGED <<cache_file, write_log, run_log>>
           ELSE /\ pc' = "outline"
                /\ IF f.exists
                   THEN /\ run_log' = Append(run_log,
                               Returned("generate_track_outline", "loaded",
                                        close_loop(read_track_data(f.rows))))
                        /\ UNCHANGED <<cache_file, write_log>>
                   ELSE /\ cache_file' = [cache_file EXCEPT !["track_centerline.csv"] =
                                              File(save_track_data(close_loop(c)))]
                        /\ write_log' = Append(write_log,
                               Written("track_centerline.csv", save_track_data(close_loop(c))))
                        /\ run_log' = Append(run_log,
                               Returned("generate_track_outline", "computed", close_loop(c)))
    /\ UNCHANGED <<path, resampled, run_state, lock, detectVars, consistencyVars,
                   lapVars, projectVars, assignVars, analysisVars>>

\* build_track_outline_figure: compute, save if a path is given, return.
BuildTrackOutlineFigure(centerline_csv_path) ==
    /\ pc \in {"lap", "outline"}
    /\ Len(run_log) < MaxRuns
    /\ pc' = "outline"
    /\ LET c == smoothed_lap(path)
       IN  /\ IF centerline_csv_path # "None"
              THEN /\ cache_file' = [cache_file EXCEPT ![centerline_csv_path] =
                                         File(save_track_data(c))]
                   /\ write_log' = Append(write_log,
                          Written(centerline_csv_path, save_track_data(c)))
              ELSE UNCHANGED <<cache_file, write_log>>
           /\ run_log' = Append(run_log,
                  Returned("build_track_outline_figure", "computed", c))
    /\ UNCHANGED <<path, resampled, run_state, lock, detectVars, consistencyVars,
                   lapVars, projectVars, assignVars, analysisVars>>

\* track_rendering generate_track_outline: compute the closed centerline;
\* load track_band.csv if it exists, else build the band on the open
\* centerline and save it.
GenerateTrackOutlineWithBand ==
    /\ pc \in {"lap", "outline"}
    /\ Len(run_log) < MaxRuns
    /\ LET c == smoothed_lap(path)
       IN  IF c.x = <<>>
           THEN pc' = "IndexError" /\ UNCHANGED <<cache_file, write_log, run_log>>
           ELSE /\ pc' = "outline"
                /\ IF cache_file["track_band.csv"].exists
                   THEN UNCHANGED <<cache_file, write_log>>
                   ELSE /\ cache_file' = [cache_file EXCEPT !["track_band.csv"] =
                                              File(save_track_band(open_loop(close_loop(c))))]
                        /\ write_log' = Append(write_log,
                               Written("track_band.csv",
                                       save_track_band(open_loop(close_loop(c)))))
                /\ run_log' = Append(run_log,
                       Returned("track_rendering.generate_track_outline", "computed",
                                close_loop(c)))
    /\ UNCHANGED <<path, resampled, run_state, lock, detectVars, consistencyVars,
                   lapVars, projectVars, assignVars, analysisVars>>

InitOutline ==
    /\ pc = "lap"
    /\ path \in OutlineLaps
    /\ resampled = <<>>
    /\ cache_file = NoFiles
    /\ write_log = <<>>
    /\ run_log = <<>>
    /\ run_state = <<>>
    /\ lock = NaN
    /\ IdleDetect
    /\ IdleConsistency
    /\ IdleLap
    /\ IdleProject
    /\ IdleAssign
    /\ IdleAnalysis

NextOutline ==
    \/ GenerateTrackOutline
    \/ \E centerline_csv_path \in {"None", "track_centerline.csv"} :
           BuildTrackOutlineFigure(centerline_csv_path)
    \/ GenerateTrackOutlineWithBand

SpecOutline == InitOutline /\ [][NextOutline]_vars

\* ---- Properties of the centerline builders -------------------------------
FirstPoint(r) == <<r.x[1], r.y[1]>>
LastPoint(r) == <<r.x[Len(r.x)], r.y[Len(r.y)]>>

\* C14: every centerline a builder returns, computed or loaded, ends on its
\* first point.
C14_ClosedCenterline ==
    \A n \in DOMAIN run_log :
        /\ run_log[n].x # <<>>
        /\ FirstPoint(run_log[n]) = LastPoint(run_log[n])

\* The run that last wrote track_centerline.csv before run n (0 if none).
LastWriter(n) ==
    LET ws == {write_log[i].run : i \in {j \in DOMAIN write_log :
                   /\ write_log[j].file = "track_centerline.csv"
                   /\ write_log[j].run < n}}
    IN  IF ws = {} THEN 0 ELSE CHOOSE w \in ws : \A v \in ws : v <= w

\* C18: a call of the deliverables' generate_track_outline that loads the
\* persisted file returns the point sequence that the call which computed
\* and persisted it returned.
C18_SameEitherWay ==
    \A n \in DOMAIN run_log :
        (/\ run_log[n].fn = "generate_track_outline"
         /\ run_log[n].mode = "loaded"
         /\ LastWriter(n) # 0
         /\ run_log[LastWriter(n)].fn = "generate_track_outline")
        => /\ run_log[n].x = run_log[LastWriter(n)].x
           /\ run_log[n].y = run_log[LastWriter(n)].y


\* ------------------------------------------------------------------------
\* Step 5 of the deliverables pipeline (main.py): build or load the centerline
\* ------------------------------------------------------------------------
\* Reference laps of the telemetry a run is started on.
MainLaps ==
    { << <<0, 0>>, <<2, 0>>, <<2, 2>> >>,
      << <<0, 0>>, <<4, 0>>, <<4, 4>>, <<0, 4>> >>,
      << <<0, 0>>, <<4, 0>>, <<4, 4>>, <<0, 4>>, <<0, 0>> >> }

\* viz.compute_centerline: resample, smooth, close the loop
compute_centerline(lap) == close_loop(smoothed_lap(lap))

\* viz.save_centerline: the centerline as the rows of track_centerline.csv
save_centerline(c) == [i \in DOMAIN c.x |-> [x_meters |-> c.x[i], y_meters |-> c.y[i]]]

\* viz.load_centerline: the rows of track_centerline.csv as two arrays
load_centerline(rows) ==
    [x |-> [i \in DOMAIN rows |-> rows[i].x_meters],
     y |-> [i \in DOMAIN rows |-> rows[i].y_meters]]

\* A plausible slip: the "not" is lost, only a forced run uses the file.
load_when_forced(exists, force) == exists /\ force

\* centerline_csv.exists() and not args.force
load_existing(exists, force) == exists /\ ~force

RunResult(force, mode, c) ==
    [fn |-> "main", force |-> force, mode |-> mode, x |-> c.x, y |-> c.y]

\* One run of main.py up to the end of step 5, on telemetry with the given
\* reference lap, with or without --force.
RunStep5(lap, force) ==
    /\ pc = "main"
    /\ Len(run_log) < MaxRuns
    /\ path' = lap
    /\ LET f == cache_file["track_centerline.csv"]
           c == compute_centerline(lap)
       IN  IF load_existing(f.exists, force)
           THEN /\ run_log' = Append(run_log,
                       RunResult(force, "loaded", load_centerline(f.rows)))
                /\ UNCHANGED <<cache_file, write_log>>
           ELSE /\ cache_file' = [cache_file EXCEPT !["track_centerline.csv"] =
                                      File(save_centerline(c))]
                /\ write_log' = Append(write_log,
                       Written("track_centerline.csv", save_centerline(c)))
                /\ run_log' = Append(run_log, RunResult(force, "computed", c))
    /\ UNCHANGED <<pc, resampled, run_state, lock, detectVars, consistencyVars,
                   lapVars, projectVars, assignVars, analysisVars>>

InitMain ==
    /\ pc = "main"
    /\ path = <<>>
    /\ resampled = <<>>
    /\ cache_file = NoFiles
    /\ write_log = <<>>
    /\ run_log = <<>>
    /\ run_state = <<>>
    /\ lock = NaN
    /\ IdleDetect
    /\ IdleConsistency
    /\ IdleLap
    /\ IdleProject
    /\ IdleAssign
    /\ IdleAnalysis

NextMain == \E lap \in MainLaps, force \in BOOLEAN : RunStep5(lap, force)

SpecMain == InitMain /\ [][NextMain]_vars

\* ---- Properties of the centerline cache ----------------------------------
\* The writes of track_centerline.csv made before run n, and by run n.
WritesBefore(n) == {i \in DOMAIN write_log :
                       write_log[i].file = "track_centerline.csv" /\ write_log[i].run < n}
WritesBy(n) == {i \in DOMAIN write_log :
                   write_log[i].file = "track_centerline.csv" /\ write_log[i].run = n}
LastWrite(n) == CHOOSE i \in WritesBefore(n) : \A j \in WritesBefore(n) : j <= i

\* C17: once track_centerline.csv exists, a run without --force loads it and
\* does not write it, so the file keeps the content of its last forced or
\* first write and every such run uses that centerline; a run that writes
\* is forced or found no file, and it writes what it computed.
C17_LoadOnceWritten ==
    /\ \A n \in DOMAIN run_log :
          /\ (WritesBefore(n) # {} /\ ~run_log[n].force) =>
                /\ run_log[n].mode = "loaded"
                /\ WritesBy(n) = {}
                /\ save_centerline(run_log[n]) = write_log[LastWrite(n)].content
          /\ WritesBy(n) # {} =>
                /\ run_log[n].force \/ WritesBefore(n) = {}
                /\ run_log[n].mode = "computed"
                /\ \A i \in WritesBy(n) : write_log[i].content = save_centerline(run_log[n])
          /\ Cardinality(WritesBy(n)) <= 1
    /\ cache_file["track_centerline.csv"] =
          IF WritesBefore(Len(run_log) + 1) = {} THEN Absent
          ELSE File(write_log[LastWrite(Len(run_log) + 1)].content)

\* Two runs without --force on different telemetry have followed the run
\* that wrote the file.
C17_Witness ==
    /\ Len(run_log) = 3
    /\ run_log[1].mode = "computed"
    /\ ~run_log[2].force /\ run_log[2].mode = "loaded"
    /\ ~run_log[3].force /\ run_log[3].mode = "loaded"
    /\ compute_centerline(path) # load_centerline(cache_file["track_centerline.csv"].rows)


\* ------------------------------------------------------------------------
\* Concurrent runs on the cache files
\* ------------------------------------------------------------------------
\* Runs started side by side.  Each goes through the sequence of main.py
\* step 5 on track_centerline.csv, or of generate_track_outline on
\* track_band.csv: check that the file exists, then load it, or compute and
\* write it.  lock.used tells whether the runs are started under an external
\* lock that spans the whole sequence; the code itself takes none.
MaxConcurrent == 2
Runs == 1..MaxConcurrent
RunLaps ==
    { << <<0, 0>>, <<2, 0>>, <<2, 2>> >>,
      << <<0, 0>>, <<4, 0>>, <<4, 4>>, <<0, 4>> >> }

NotStarted == [pc |-> "start"]

\* A plausible slip: the check looks at a path where nothing is ever stored.
exists_elsewhere(f) == FALSE

\* centerline_csv.exists(), band_path.exists()
exists(f) == f.exists

\* What a run computes for its file, as the rows it will write.
computed_rows(file, lap) ==
    IF file = "track_centerline.csv" THEN save_centerline(compute_centerline(lap))
    ELSE save_track_band(open_loop(compute_centerline(lap)))

Finished(r, mode) ==
    [fn |-> "run", run |-> r, file |-> run_state[r].file,
     force |-> run_state[r].force, mode |-> mode]

\* The run starts and evaluates the condition on its cache file.
Check(r, file, lap, force) ==
    /\ pc = "runs"
    /\ run_state[r].pc = "start"
    /\ force => file = "track_centerline.csv"
    /\ lock.used => lock.holder = 0
    /\ lock' = IF lock.used THEN [lock EXCEPT !.holder = r] ELSE lock
    /\ run_state' = [run_state EXCEPT ![r] =
           [pc |-> "checked", file |-> file, lap |-> lap, force |-> force,
            load |-> load_existing(exists(cache_file[file]), force)]]
    /\ UNCHANGED <<pc, path, resampled, cache_file, write_log, run_log,
                   detectVars, consistencyVars, lapVars, projectVars, assignVars, analysisVars>>

\* The file was found: the run reads it.
Load(r) ==
    /\ pc = "runs"
    /\ run_state[r].pc = "checked"
    /\ run_state[r].load
    /\ run_state' = [run_state EXCEPT ![r] =
           [pc |-> "done", rows |-> cache_file[run_state[r].file].rows]]
    /\ run_log' = Append(run_log, Finished(r, "loaded"))
    /\ lock' = IF lock.used THEN [lock EXCEPT !.holder = 0] ELSE lock
    /\ UNCHANGED <<pc, path, resampled, cache_file, write_log,
                   detectVars, consistencyVars, lapVars, projectVars, assignVars, analysisVars>>

\* The file was not found, or --force was given: the run computes.
Compute(r) ==
    /\ pc = "runs"
    /\ run_state[r].pc = "checked"
    /\ ~run_state[r].load
    /\ run_state' = [run_state EXCEPT ![r] =
           [pc |-> "computed", file |-> run_state[r].file, force |-> run_state[r].force,
            rows |-> computed_rows(run_state[r].file, run_state[r].lap)]]
    /\ UNCHANGED <<pc, path, resampled, cache_file, write_log, run_log, lock,
                   detectVars, consistencyVars, lapVars, projectVars, assignVars, analysisVars>>

\* The run writes what it computed.
Write(r) ==
    /\ pc = "runs"
    /\ run_state[r].pc = "computed"
    /\ cache_file' = [cache_file EXCEPT ![run_state[r].file] = File(run_state[r].rows)]
    /\ write_log' = Append(write_log, Written(run_state[r].file, run_state[r].rows))
    /\ run_log' = Append(run_log, Finished(r, "computed"))
    /\ run_state' = [run_state EXCEPT ![r] = [pc |-> "done", rows |-> run_state[r].rows]]
    /\ lock' = IF lock.used THEN [lock EXCEPT !.holder = 0] ELSE lock
    /\ UNCHANGED <<pc, path, resampled,
                   detectVars, consistencyVars, lapVars, projectVars, assignVars, analysisVars>>

InitRuns ==
    /\ pc = "runs"
    /\ path = <<>>
    /\ resampled = <<>>
    /\ cache_file = NoFiles
    /\ write_log = <<>>
    /\ run_log = <<>>
    /\ run_state = [r \in Runs |-> NotStarted]
    /\ lock \in {[used |-> u, holder |-> 0] : u \in BOOLEAN}
    /\ IdleDetect
    /\ IdleConsistency
    /\ IdleLap
    /\ IdleProject
    /\ IdleAssign
    /\ IdleAnalysis

NextRuns ==
    \E r \in Runs :
        \/ \E file \in CacheFiles, lap \in RunLaps, force \in BOOLEAN :
               Check(r, file, lap, force)
        \/ Load(r)
        \/ Compute(r)
        \/ Write(r)

SpecRuns == InitRuns /\ [][NextRuns]_vars

\* ---- Properties of concurrent runs ---------------------------------------
WritesOf(file) == {i \in DOMAIN write_log : write_log[i].file = file}
RunsOn(file) == {n \in DOMAIN run_log : run_log[n].file = file}
Wrote(n) == \E i \in DOMAIN write_log : write_log[i].run = n

\* Each cache file is written at most once, and every finished run on it
\* that did not write it has loaded it.
WrittenOnce ==
    \A file \in CacheFiles :
        /\ Cardinality(WritesOf(file)) <= 1
        /\ \A n \in RunsOn(file) : ~Wrote(n) => run_log[n].mode = "loaded"

\* C19 (as stated): with the whole check / compute / write sequence under
\* external mutual exclusion, however many runs share a cache file, the file
\* is written at most once and every other run loads it.
C19_WrittenOnceUnderLock == lock.used => WrittenOnce

\* C19 (amended): the same for runs none of which is given --force.
C19_UnforcedWrittenOnceUnderLock ==
    (lock.used /\ \A n \in DOMAIN run_log : ~run_log[n].force) => WrittenOnce

\* Under the lock all runs have finished on the same file, without --force:
\* one wrote it, the others loaded it.
C19_Witness ==
    /\ lock.used
    /\ Len(run_log) = MaxConcurrent
    /\ \A n \in DOMAIN run_log : ~run_log[n].force /\ run_log[n].file = run_log[1].file
    /\ Cardinality(WritesOf(run_log[1].file)) = 1

\* Without the lock the sequence itself excludes nothing: two runs without
\* --force both find no file and both write it.
C19_RaceWithoutLock ==
    /\ ~lock.used
    /\ \A n \in DOMAIN run_log : ~run_log[n].force
    /\ \E file \in CacheFiles : Cardinality(WritesOf(file)) >= 2


\* ---- Properties of the brake-type label ----------------------------------
\* The pressure of the channel that the event's label names.
LabelledPressure(ev) == IF ev.brake_type = "front" THEN ev.pbrake_f ELSE ev.pbrake_r

\* C20: the label of every event names the channel with the larger pressure
\* at the onset sample, front on a tie, so that channel's pressure is the
\* event's brake_pressure, also where only one channel has a reading.
C20_LabelNamesLargerChannel ==
    pc = "detected" =>
        \A i \in DOMAIN df_events :
            /\ df_events[i].brake_type \in {"front", "rear"}
            /\ LabelledPressure(df_events[i]) = df_events[i].brake_pressure
            /\ (df_events[i].pbrake_f # NaN /\ df_events[i].pbrake_r # NaN) =>
                  (df_events[i].brake_type = "front"
                      <=> df_events[i].pbrake_f >= df_events[i].pbrake_r)


\* ------------------------------------------------------------------------
\* Smoothing and normals of a lap (track_rendering.py, visuals.py)
\* ------------------------------------------------------------------------
MaxLapLen == 16

\* Point i of a lap round a square of 8 m sides, one point every 2 m.
SquareLap(i) ==
    LET k == (i - 1) % 16
    IN  IF k < 4 THEN <<2 * k, 0>>
        ELSE IF k < 8 THEN <<8, 2 * (k - 4)>>
        ELSE IF k < 12 THEN <<8 - 2 * (k - 8), 8>>
        ELSE <<0, 8 - 2 * (k - 12)>>

\* Point i of a lap that runs 16 m out along a straight and back again.
OutAndBackLap(i) ==
    LET k == (i - 1) % 16
    IN  IF k <= 8 THEN <<2 * k, 0>> ELSE <<2 * (16 - k), 0>>

\* The laps handed to the smoothing and to the normals: the first n points
\* of either shape.
RenderLaps ==
    {[i \in 1..n |-> SquareLap(i)] : n \in 1..MaxLapLen}
        \cup {[i \in 1..n |-> OutAndBackLap(i)] : n \in 1..MaxLapLen}
WindowLengths == {4, 5, savgol_window}
WrapCounts == {0, 2, wrap_count}

xs_of(p) == [i \in DOMAIN p |-> p[i][1]]
ys_of(p) == [i \in DOMAIN p |-> p[i][2]]

\* np.gradient(xs)[i] in 1/Scale metres: one-sided at the two ends, central
\* inside.
gradient(xs, i) ==
    IF i = 1 THEN (xs[2] - xs[1]) * Scale
    ELSE IF i = Len(xs) THEN (xs[i] - xs[i - 1]) * Scale
    ELSE ((xs[i + 1] - xs[i - 1]) * Scale) \div 2

\* np.hypot(dx, dy)
hypot(dx, dy) == Sqrt(dx * dx + dy * dy)

\* mag = np.hypot(dx, dy); mag[mag == 0] = 1.0
mag(dx, dy) == IF hypot(dx, dy) = 0 THEN Scale ELSE hypot(dx, dy)

\* _compute_normals(x, y): t_hat = (dx / mag, dy / mag), n_hat = (-ty, tx),
\* components in 1/Scale.
_compute_normals(p) ==
    LET dx(i) == gradient(xs_of(p), i)
        dy(i) == gradient(ys_of(p), i)
        tx(i) == (dx(i) * Scale) \div mag(dx(i), dy(i))
        ty(i) == (dy(i) * Scale) \div mag(dx(i), dy(i))
    IN  [t_hat |-> [i \in DOMAIN p |-> <<tx(i), ty(i)>>],
         n_hat |-> [i \in DOMAIN p |-> <<0 - ty(i), tx(i)>>]]

\* smooth_periodic(x, y, window_length, 3, wrap_count)
SmoothPeriodic(window_length, wrap) ==
    /\ pc = "lap"
    /\ pc' = "smoothed"
    /\ resampled' = [window_length |-> window_length,
                     wrap_count |-> wrap,
                     x |-> smooth_periodic(xs_of(path), window_length, wrap),
                     y |-> smooth_periodic(ys_of(path), window_length, wrap)]
    /\ UNCHANGED <<path, detectVars, consistencyVars, lapVars,
                   projectVars, assignVars, cacheVars, analysisVars>>

\* _compute_normals(x, y); np.gradient refuses an array of fewer than two
\* elements with ValueError.
ComputeNormals ==
    /\ pc = "lap"
    /\ IF Len(path) < 2
       THEN pc' = "ValueError" /\ UNCHANGED resampled
       ELSE pc' = "normals" /\ resampled' = _compute_normals(path)
    /\ UNCHANGED <<path, detectVars, consistencyVars, lapVars,
                   projectVars, assignVars, cacheVars, analysisVars>>

InitRender ==
    /\ pc = "lap"
    /\ path \in RenderLaps
    /\ resampled = <<>>
    /\ IdleDetect
    /\ IdleConsistency
    /\ IdleLap
    /\ IdleProject
    /\ IdleAssign
    /\ IdleCache
    /\ IdleAnalysis

NextRender ==
    \/ \E window_length \in WindowLengths : \E wrap \in WrapCounts :
          SmoothPeriodic(window_length, wrap)
    \/ ComputeNormals

SpecRender == InitRender /\ [][NextRender]_vars

\* ---- Properties of the smoothing and of the normals ----------------------
\* C21: smooth_periodic returns x and y with exactly as many points as its
\* input, for every input length and every wrap_count >= 0, also for inputs
\* shorter than wrap_count and for wrap_count = 0.
C21_SmoothKeepsLength ==
    pc = "smoothed" =>
        /\ Len(resampled.x) = Len(path)
        /\ Len(resampled.y) = Len(path)

\* A vector in 1/Scale has unit length, up to the rounding of its two
\* components.
UnitLength(v) ==
    /\ v[1] * v[1] + v[2] * v[2] >= (Scale - 2) * (Scale - 2)
    /\ v[1] * v[1] + v[2] * v[2] <= (Scale + 2) * (Scale + 2)

\* C23: every tangent and every normal returned by _compute_normals has unit
\* length, also at stations where the central-difference gradient is zero.
C23_UnitTangentsAndNormals ==
    pc = "normals" =>
        \A i \in DOMAIN path :
            /\ UnitLength(resampled.t_hat[i])
            /\ UnitLength(resampled.n_hat[i])


\* ---- Properties of the cleanup before resampling -------------------------
\* C22: after the cleanup of resample_by_distance no segment between
\* consecutive kept points is longer than spike_threshold_m and none has zero
\* length, whatever the input path.
C22_CleanedPathFree ==
    pc = "resampled" =>
        \A i \in 1..(Len(cleanup(path)) - 1) :
            /\ ~spike_mask(cleanup(path), i)
            /\ ~duplicate_mask(cleanup(path), i)


\* ------------------------------------------------------------------------
\* The brake threshold (data_loaders.py, save_brake_events.py,
\* analyze_brake_curves.py)
\* ------------------------------------------------------------------------
\* Front and rear readings of one telemetry sample, in bar; a sensor at rest
\* reads zero or slightly below.
ReadingPairs == {<<NaN, 0>>, <<2, NaN>>, <<4, 2>>, <<0 - 2, 6>>}

pbrake_f_column(df) == [i \in DOMAIN df |-> df[i].pbrake_f]
pbrake_r_column(df) == [i \in DOMAIN df |-> df[i].pbrake_r]

\* series.dropna()
dropna(series) == SelectSeq(series, LAMBDA v : v # NaN)

\* series[series > 0]: the comparison is False for a missing value.
positive(series) == SelectSeq(series, LAMBDA v : v # NaN /\ v > 0)

\* The k-th smallest element of a non-empty array.
kth_smallest(a, k) ==
    CHOOSE v \in Range(a) :
        /\ Cardinality({i \in DOMAIN a : a[i] < v}) < k
        /\ Cardinality({i \in DOMAIN a : a[i] <= v}) >= k

\* np.percentile(a, q) by linear interpolation between the two order
\* statistics around position (n - 1) * q / 100, in hundredths of a bar;
\* nan for an empty array.
percentile(a, q) ==
    LET position == (Len(a) - 1) * q
        lo == position \div 100 + 1
        fraction == position % 100
    IN  IF a = <<>> THEN NaN
        ELSE IF fraction = 0 THEN 100 * kth_smallest(a, lo)
        ELSE 100 * kth_smallest(a, lo)
                 + fraction * (kth_smallest(a, lo + 1) - kth_smallest(a, lo))

\* data_loaders.calculate_brake_threshold(df, percentile)
calculate_brake_threshold(df, q) ==
    percentile(dropna(pbrake_f_column(df)) \o dropna(pbrake_r_column(df)), q)

\* save_brake_events.main: the threshold over the positive readings of both
\* channels.
save_brake_events_threshold(df) ==
    percentile(positive(pbrake_f_column(df) \o pbrake_r_column(df)), 5)

\* analyze_brake_curves.calculate_brake_threshold(telemetry)
analyze_brake_curves_threshold(df) ==
    percentile(positive(pbrake_f_column(df)) \o positive(pbrake_r_column(df)), 5)

\* One telemetry sample is read.
ReadPressures(p) ==
    /\ pc = "readings"
    /\ Len(telemetry) < MaxRows
    /\ telemetry' = Append(telemetry, [pbrake_f |-> p[1], pbrake_r |-> p[2]])
    /\ UNCHANGED <<pc, threshold, df_events, consistencyVars, lapVars, trackVars>>

\* test_brake_detection.main and load_and_process.main:
\* calculate_brake_threshold(df, percentile=5)
TestBrakeDetectionThreshold ==
    /\ pc = "readings"
    /\ telemetry # <<>>
    /\ threshold' = calculate_brake_threshold(telemetry, 5)
    /\ pc' = "test_brake_detection"
    /\ UNCHANGED <<telemetry, df_events, consistencyVars, lapVars, trackVars>>

SaveBrakeEventsThreshold ==
    /\ pc = "readings"
    /\ telemetry # <<>>
    /\ threshold' = save_brake_events_threshold(telemetry)
    /\ pc' = "save_brake_events"
    /\ UNCHANGED <<telemetry, df_events, consistencyVars, lapVars, trackVars>>

AnalyzeBrakeCurvesThreshold ==
    /\ pc = "readings"
    /\ telemetry # <<>>
    /\ threshold' = analyze_brake_curves_threshold(telemetry)
    /\ pc' = "analyze_brake_curves"
    /\ UNCHANGED <<telemetry, df_events, consistencyVars, lapVars, trackVars>>

InitThreshold ==
    /\ pc = "readings"
    /\ telemetry = <<>>
    /\ threshold = 0
    /\ df_events = <<>>
    /\ IdleConsistency
    /\ IdleLap
    /\ IdleTrack

NextThreshold ==
    \/ \E p \in ReadingPairs : ReadPressures(p)
    \/ TestBrakeDetectionThreshold
    \/ SaveBrakeEventsThreshold
    \/ AnalyzeBrakeCurvesThreshold

SpecThreshold == InitThreshold /\ [][NextThreshold]_vars

\* ---- Properties of the brake threshold -----------------------------------
\* The positive front and rear readings of the session.
PositiveReadings ==
    SelectSeq(pbrake_f_column(telemetry) \o pbrake_r_column(telemetry),
              LAMBDA v : v # NaN /\ v > 0)

\* C24: the threshold of calculate_brake_threshold with percentile=5 is the
\* 5th percentile of the strictly positive front and rear readings, so zero
\* and negative readings do not move it, and it equals the P5 threshold of
\* save_brake_events and of analyze_brake_curves.
C24_ThresholdOfPositiveReadings ==
    pc \in {"test_brake_detection", "save_brake_events", "analyze_brake_curves"} =>
        threshold = percentile(PositiveReadings, 5)


\* ---- Properties of the analysis of an events table without groups --------
\* No (vehicle, zone) pair has two zone-assigned events.
NoPairWithTwoEvents ==
    \A i \in DOMAIN brake_events_df : \A j \in DOMAIN brake_events_df :
        (i # j /\ brake_events_df[i].zone_id # NaN)
            => \/ brake_events_df[i].vehicle_number # brake_events_df[j].vehicle_number
               \/ brake_events_df[i].zone_id # brake_events_df[j].zone_id

\* C25: when every (vehicle, zone) pair has fewer than two events, or no
\* event is zone-assigned, calculate_dispersion_by_zone followed by
\* calculate_driver_summary completes without raising, with an empty
\* dispersion table and an empty driver summary.
C25_EmptyTablesWithoutRaising ==
    (pc \in {"summary", "KeyError"} /\ NoPairWithTwoEvents) =>
        /\ pc = "summary"
        /\ dispersion_by_zone = <<>>
        /\ driver_summary = <<>>


\* ------------------------------------------------------------------------
\* The USAC results table (data_loaders.load_usac_results)
\* ------------------------------------------------------------------------
\* FL_TIME cells of the results file: two lap times, "DNF", and an empty cell.
UsacCells ==
    {<<"1", ":", "3", "7", ".", "4">>, <<"1", ":", "3", "9">>, <<"D", "N", "F">>,
     MissingCell}

\* df["FL_TIME"].astype(str): a missing cell becomes the string "nan".
astype_str(cell) == IF cell = MissingCell THEN <<"n", "a", "n">> ELSE cell

\* pd.to_timedelta refuses the string: it is not hours:minutes:seconds.
to_timedelta_raises(str) ==
    \/ Len(split(str)) # 3
    \/ ~IsInt(split(str)[1])
    \/ ~IsInt(split(str)[2])
    \/ ~IsFloat(split(str)[3])

\* pd.to_timedelta(str).total_seconds(), in thousandths of a second
total_seconds(str) ==
    IntValue(split(str)[1]) * 3600000 + IntValue(split(str)[2]) * 60000
        + FloatMillis(split(str)[3])

\* "00:" + df["FL_TIME"].astype(str)
prefixed(cell) == <<"0", "0", ":">> \o astype_str(cell)

\* df["FL_TIME_seconds"].idxmin(): the first row holding the minimum
idxmin(df) ==
    CHOOSE i \in DOMAIN df :
        /\ \A j \in DOMAIN df : df[i].FL_TIME_seconds <= df[j].FL_TIME_seconds
        /\ \A j \in 1..(i - 1) : df[j].FL_TIME_seconds > df[i].FL_TIME_seconds

\* pd.read_csv(results_path, sep=";"): one more row of the results file
ReadResultsRow(cell) ==
    /\ pc = "results"
    /\ Len(results_df) < MaxRows
    /\ results_df' = Append(results_df,
           [NUMBER |-> 10 + Len(results_df), FL_TIME |-> cell])
    /\ UNCHANGED <<pc, driver_zone_curves, split_curves, hypothesis, saved,
                   detectVars, consistencyVars, lapVars,
                   projectVars, assignVars, resampleVars, cacheVars>>

\* load_usac_results(results_path): pd.to_timedelta is called with the
\* default errors="raise", so one refused string raises ValueError for the
\* whole column; idxmin of an empty column raises ValueError as well.
LoadUsacResults ==
    /\ pc = "results"
    /\ IF results_df = <<>>
          \/ \E i \in DOMAIN results_df : to_timedelta_raises(prefixed(results_df[i].FL_TIME))
       THEN pc' = "ValueError" /\ UNCHANGED <<results_df, time_str>>
       ELSE LET df == [i \in DOMAIN results_df |->
                         [NUMBER |-> results_df[i].NUMBER,
                          FL_TIME |-> results_df[i].FL_TIME,
                          FL_TIME_seconds |->
                              total_seconds(prefixed(results_df[i].FL_TIME))]]
            IN  /\ results_df' = df
                /\ time_str' = df[idxmin(df)].FL_TIME
                /\ pc' = "usac_loaded"
    /\ UNCHANGED <<fastest_lap_seconds, driver_zone_curves, split_curves,
                   hypothesis, saved, detectVars, consistencyVars,
                   projectVars, assignVars, resampleVars, cacheVars>>

InitUsac ==
    /\ pc = "results"
    /\ results_df = <<>>
    /\ driver_zone_curves = <<>>
    /\ split_curves = <<>>
    /\ hypothesis = <<>>
    /\ saved = {}
    /\ IdleDetect
    /\ IdleConsistency
    /\ IdleLap
    /\ IdleProject
    /\ IdleAssign
    /\ IdleResample
    /\ IdleCache

NextUsac ==
    \/ \E cell \in UsacCells : ReadResultsRow(cell)
    \/ LoadUsacResults

SpecUsac == InitUsac /\ [][NextUsac]_vars

\* ---- Properties of the results table -------------------------------------
\* The cell reads as minutes:seconds.
LapTimeCell(cell) ==
    /\ cell # MissingCell
    /\ Len(split(cell)) = 2
    /\ IsInt(split(cell)[1])
    /\ IsFloat(split(cell)[2])

LapTimeMillis(cell) == IntValue(split(cell)[1]) * 60000 + FloatMillis(split(cell)[2])

\* C26: a results table in which some FL_TIME is malformed or missing is
\* loaded all the same: every row is kept, the row's FL_TIME_seconds is
\* missing, and the fastest lap among the parseable rows is reported.
C26_MalformedLapTimeTolerated ==
    (pc \in {"usac_loaded", "ValueError"}
        /\ \E i \in DOMAIN results_df : LapTimeCell(results_df[i].FL_TIME)) =>
        /\ pc = "usac_loaded"
        /\ \A i \in DOMAIN results_df :
              results_df[i].FL_TIME_seconds =
                  IF LapTimeCell(results_df[i].FL_TIME)
                  THEN LapTimeMillis(results_df[i].FL_TIME) ELSE NaN
        /\ \E i \in DOMAIN results_df :
              /\ LapTimeCell(results_df[i].FL_TIME)
              /\ time_str = results_df[i].FL_TIME
              /\ \A j \in DOMAIN results_df :
                    LapTimeCell(results_df[j].FL_TIME) =>
                        LapTimeMillis(results_df[i].FL_TIME)
                            <= LapTimeMillis(results_df[j].FL_TIME)


\* ------------------------------------------------------------------------
\* Splitting the double-peak zones (analyze_brake_curves.split_double_zones)
\* ------------------------------------------------------------------------
MaxCurves == 3
SPLIT_TIME == 2

SplitVehicles == {7, 8}
SplitZoneIds == {3, 4, 6, 9, 10}
\* The time_offset column of a curve, in seconds: a curve across the split
\* time that starts before the onset, one that ends before the split time,
\* and one that starts at it.
CurveTimes == {<<0 - 1, 0, 1, 2, 3>>, <<0, 1>>, <<2, 3, 4>>}

\* A dict keeps its keys in insertion order: a sequence of entries with
\* pairwise distinct keys.
HasKey(d, key) == \E i \in DOMAIN d : d[i].key = key
Get(d, key) == d[CHOOSE i \in DOMAIN d : d[i].key = key].curve

\* d[key] = curve: the value of a key already present is replaced in place.
Put(d, key, curve) ==
    IF HasKey(d, key)
    THEN [i \in DOMAIN d |-> IF d[i].key = key THEN [key |-> key, curve |-> curve] ELSE d[i]]
    ELSE Append(d, [key |-> key, curve |-> curve])

\* curve[curve["time_offset"] < SPLIT_TIME].copy()
before_split(curve) == SelectSeq(curve, LAMBDA s : s.time_offset < SPLIT_TIME)
\* curve[curve["time_offset"] >= SPLIT_TIME].copy()
after_split(curve) == SelectSeq(curve, LAMBDA s : s.time_offset >= SPLIT_TIME)

\* half["time_offset"].min()
min_time_offset(half) ==
    CHOOSE t \in {half[i].time_offset : i \in DOMAIN half} :
        \A i \in DOMAIN half : t <= half[i].time_offset

\* half["time_offset"] -= half["time_offset"].min()
rezeroed(half) ==
    [i \in DOMAIN half |->
        [time_offset |-> half[i].time_offset - min_time_offset(half),
         pressure |-> half[i].pressure]]

\* The two branches "if len(before) > 0" and "if len(after) > 0" of a
\* double-peak zone, whose second half gets the id new_id.
split_zone(out, vehicle_num, zone_id, new_id, curve) ==
    LET with_before == IF Len(before_split(curve)) > 0
                       THEN Put(out, <<vehicle_num, zone_id>>, rezeroed(before_split(curve)))
                       ELSE out
    IN  IF Len(after_split(curve)) > 0
        THEN Put(with_before, <<vehicle_num, new_id>>, rezeroed(after_split(curve)))
        ELSE with_before

\* The loop over driver_zone_curves.items(), from entry i on.
RECURSIVE split_from(_, _, _)
split_from(d, i, out) ==
    IF i > Len(d) THEN out
    ELSE LET vehicle_num == d[i].key[1]
             zone_id == d[i].key[2]
         IN  split_from(d, i + 1,
                 IF zone_id = 4 THEN split_zone(out, vehicle_num, 4, 9, d[i].curve)
                 ELSE IF zone_id = 6 THEN split_zone(out, vehicle_num, 6, 10, d[i].curve)
                 ELSE Put(out, <<vehicle_num, zone_id>>, d[i].curve))

split_double_zones(d) == split_from(d, 1, <<>>)

\* One more averaged curve enters the dict, under a key not yet present.
\* Every sample carries a pressure of its own, by which it is recognised
\* after its time_offset has been re-zeroed.
AddCurve(vehicle_num, zone_id, times) ==
    /\ pc = "curves"
    /\ Len(driver_zone_curves) < MaxCurves
    /\ ~HasKey(driver_zone_curves, <<vehicle_num, zone_id>>)
    /\ driver_zone_curves' = Append(driver_zone_curves,
           [key |-> <<vehicle_num, zone_id>>,
            curve |-> [i \in DOMAIN times |->
                          [time_offset |-> times[i],
                           pressure |-> 1000 * vehicle_num + 10 * zone_id + i]]])
    /\ UNCHANGED <<pc, results_df, split_curves, hypothesis, saved,
                   detectVars, consistencyVars, lapVars,
                   projectVars, assignVars, resampleVars, cacheVars>>

SplitDoubleZones ==
    /\ pc = "curves"
    /\ split_curves' = split_double_zones(driver_zone_curves)
    /\ pc' = "split"
    /\ UNCHANGED <<results_df, driver_zone_curves, hypothesis, saved,
                   detectVars, consistencyVars, lapVars,
                   projectVars, assignVars, resampleVars, cacheVars>>

InitSplit ==
    /\ pc = "curves"
    /\ results_df = <<>>
    /\ driver_zone_curves = <<>>
    /\ split_curves = <<>>
    /\ hypothesis = <<>>
    /\ saved = {}
    /\ IdleDetect
    /\ IdleConsistency
    /\ IdleLap
    /\ IdleProject
    /\ IdleAssign
    /\ IdleResample
    /\ IdleCache

NextSplit ==
    \/ \E vehicle_num \in SplitVehicles, zone_id \in SplitZoneIds, times \in CurveTimes :
          AddCurve(vehicle_num, zone_id, times)
    \/ SplitDoubleZones

SpecSplit == InitSplit /\ [][NextSplit]_vars

\* ---- Properties of the split ----------------------------------------------
\* The id under which the second half of a double-peak zone is stored.
NewZoneId(zone_id) == IF zone_id = 4 THEN 9 ELSE 10

\* The samples of a curve before, and from, 2.0 s, with the earliest of them
\* moved to time_offset 0.
BeforeHalf(curve) ==
    LET half == SelectSeq(curve, LAMBDA s : s.time_offset < 2)
    IN  [i \in DOMAIN half |->
            [time_offset |-> half[i].time_offset - half[1].time_offset,
             pressure |-> half[i].pressure]]
AfterHalf(curve) ==
    LET half == SelectSeq(curve, LAMBDA s : s.time_offset >= 2)
    IN  [i \in DOMAIN half |->
            [time_offset |-> half[i].time_offset - half[1].time_offset,
             pressure |-> half[i].pressure]]

StoredAs(key, curve) == HasKey(split_curves, key) /\ Get(split_curves, key) = curve

\* C27: only the curves of zones 4 and 6 are split: the samples before 2.0 s
\* stay under the original id, those from 2.0 s on go to the new id (9 for
\* zone 4, 10 for zone 6), each non-empty half re-zeroed to start at 0; the
\* curve of any other zone is kept unchanged under its own key.
C27_SplitOnlyDoubleZones ==
    pc = "split" =>
        \A n \in DOMAIN driver_zone_curves :
            LET vehicle_num == driver_zone_curves[n].key[1]
                zone_id == driver_zone_curves[n].key[2]
                curve == driver_zone_curves[n].curve
            IN  IF zone_id \in {4, 6}
                THEN /\ BeforeHalf(curve) # <<>> =>
                           StoredAs(<<vehicle_num, zone_id>>, BeforeHalf(curve))
                     /\ AfterHalf(curve) # <<>> =>
                           StoredAs(<<vehicle_num, NewZoneId(zone_id)>>, AfterHalf(curve))
                     /\ Len(BeforeHalf(curve)) + Len(AfterHalf(curve)) = Len(curve)
                ELSE StoredAs(<<vehicle_num, zone_id>>, curve)

\* The places of the output where the sample of pressure p is found.
PlacesOf(p) ==
    {<<k, j>> \in (DOMAIN split_curves) \X (1..5) :
        j <= Len(split_curves[k].curve) /\ split_curves[k].curve[j].pressure = p}

\* C30: no curve is lost: every sample of every input curve is found in
\* exactly one output curve, also when the input holds a curve of zone 9 or
\* 10 for a vehicle that has a curve of zone 4 or 6, in whatever order the
\* curves are visited.
C30_NoSampleLost ==
    pc = "split" =>
        \A n \in DOMAIN driver_zone_curves :
            \A i \in DOMAIN driver_zone_curves[n].curve :
                Cardinality(PlacesOf(driver_zone_curves[n].curve[i].pressure)) = 1


\* ------------------------------------------------------------------------
\* Step 7: the hypothesis check and the saved tables
\* (consistency_analysis.validate_hypothesis, run_step7_analysis.main)
\* ------------------------------------------------------------------------
MaxDrivers == 3

Step7Vehicles == {7, 8, 9}
Step7Dispersions == {3, 5}
Step7LapSeconds == {NaN, 97, 99}
Step7Files == {"dispersion_by_corner.csv", "driver_summary.csv"}

\* driver_summary_with_times_df.dropna(subset=["fastest_lap_seconds"])
valid_rows(df) == SelectSeq(df, LAMBDA r : r.fastest_lap_seconds # NaN)

\* valid.sort_values("fastest_lap_seconds").iloc[0] and .iloc[-1]
fastest_driver(valid) ==
    valid[CHOOSE i \in DOMAIN valid :
        /\ \A j \in DOMAIN valid : valid[i].fastest_lap_seconds <= valid[j].fastest_lap_seconds
        /\ \A j \in 1..(i - 1) : valid[j].fastest_lap_seconds > valid[i].fastest_lap_seconds]
slowest_driver(valid) ==
    valid[CHOOSE i \in DOMAIN valid :
        /\ \A j \in DOMAIN valid : valid[i].fastest_lap_seconds >= valid[j].fastest_lap_seconds
        /\ \A j \in (i + 1)..Len(valid) : valid[j].fastest_lap_seconds < valid[i].fastest_lap_seconds]

\* valid["fastest_lap_seconds"].corr(valid["avg_dispersion_meters"]) > 0:
\* the sign of the correlation is the sign of the covariance, and a
\* correlation that is not defined (one driver, or a constant column) is
\* nan, which is not greater than 0.
positive_correlation(valid) ==
    Len(valid) * SumSeq([i \in DOMAIN valid |->
                            valid[i].fastest_lap_seconds * valid[i].avg_dispersion_meters])
        - SumSeq([i \in DOMAIN valid |-> valid[i].fastest_lap_seconds])
              * SumSeq([i \in DOMAIN valid |-> valid[i].avg_dispersion_meters])
        > 0

\* A plausible slip: the check for a table without lap times is missing, and
\* .iloc[0] of the empty table raises.
validate_hypothesis_unguarded(df) ==
    LET valid == valid_rows(df)
    IN  IF Len(valid) = 0 THEN <<"IndexError">>
        ELSE <<fastest_driver(valid).avg_dispersion_meters
                   < slowest_driver(valid).avg_dispersion_meters
               /\ positive_correlation(valid), "message">>

\* validate_hypothesis(driver_summary_with_times_df): the returned pair
\* (hypothesis_holds, message); of the message its verdict line is kept.
validate_hypothesis(df) ==
    LET valid == valid_rows(df)
        fastest_better == fastest_driver(valid).avg_dispersion_meters
                              < slowest_driver(valid).avg_dispersion_meters
    IN  IF Len(valid) = 0 THEN <<FALSE, "No valid lap time data found">>
        ELSE <<fastest_better /\ positive_correlation(valid),
               IF fastest_better /\ positive_correlation(valid)
               THEN "Hypothesis: VALIDATED" ELSE "Hypothesis: FAILED">>

\* One more driver of driver_summary_with_times, vehicles in the order of
\* the summary; a driver absent from the results table has no lap time.
AddDriver(vehicle_number, avg_dispersion_meters, seconds) ==
    /\ pc = "step7"
    /\ Len(driver_summary) < MaxDrivers
    /\ driver_summary # <<>> =>
           driver_summary[Len(driver_summary)].vehicle_number < vehicle_number
    /\ driver_summary' = Append(driver_summary,
           [vehicle_number |-> vehicle_number,
            avg_dispersion_meters |-> avg_dispersion_meters,
            fastest_lap_seconds |-> seconds])
    /\ UNCHANGED <<pc, zones, centerline, brake_events_df, dispersion_by_zone,
                   detectVars, lapVars, trackVars>>

\* hypothesis_holds, message = validate_hypothesis(driver_summary_with_times)
\* and the report printed for either outcome.
ValidateHypothesis ==
    /\ pc = "step7"
    /\ hypothesis' = validate_hypothesis(driver_summary)
    /\ pc' = "validated"
    /\ UNCHANGED <<consistencyVars, detectVars, lapVars, projectVars, assignVars,
                   resampleVars, cacheVars,
                   results_df, driver_zone_curves, split_curves, saved>>

\* dispersion_by_zone.to_csv(DISPERSION_BY_CORNER, index=False)
SaveDispersionByCorner ==
    /\ pc = "validated"
    /\ saved' = saved \cup {"dispersion_by_corner.csv"}
    /\ pc' = "saved_dispersion"
    /\ UNCHANGED <<consistencyVars, detectVars, lapVars, projectVars, assignVars,
                   resampleVars, cacheVars,
                   results_df, driver_zone_curves, split_curves, hypothesis>>

\* driver_summary_with_times.to_csv(DRIVER_SUMMARY, index=False)
SaveDriverSummary ==
    /\ pc = "saved_dispersion"
    /\ saved' = saved \cup {"driver_summary.csv"}
    /\ pc' = "saved_summary"
    /\ UNCHANGED <<consistencyVars, detectVars, lapVars, projectVars, assignVars,
                   resampleVars, cacheVars,
                   results_df, driver_zone_curves, split_curves, hypothesis>>

InitStep7 ==
    /\ pc = "step7"
    /\ zones = <<>>
    /\ centerline = <<>>
    /\ brake_events_df = <<>>
    /\ dispersion_by_zone = <<>>
    /\ driver_summary = <<>>
    /\ IdleDetect
    /\ IdleLap
    /\ IdleTrack

NextStep7 ==
    \/ \E vehicle_number \in Step7Vehicles, avg_dispersion_meters \in Step7Dispersions,
          seconds \in Step7LapSeconds :
          AddDriver(vehicle_number, avg_dispersion_meters, seconds)
    \/ ValidateHypothesis
    \/ SaveDispersionByCorner
    \/ SaveDriverSummary

\* The script is one sequential run: a statement that is reached is executed.
SpecStep7 ==
    /\ InitStep7
    /\ [][NextStep7]_vars
    /\ WF_vars(ValidateHypothesis)
    /\ WF_vars(SaveDispersionByCorner)
    /\ WF_vars(SaveDriverSummary)

\* ---- Properties of step 7 -------------------------------------------------
\* C29: the hypothesis check only reports: validate_hypothesis returns a
\* (bool, message) pair without raising, whether the hypothesis failed or no
\* driver has a valid lap time, and the run goes on to write both the
\* per-zone dispersion table and the driver summary.
C29_CheckOnlyReports ==
    /\ [](pc # "step7" => /\ Len(hypothesis) = 2
                          /\ hypothesis[1] \in BOOLEAN)
    /\ (pc = "validated") ~> (Step7Files \subseteq saved)

\* The hypothesis failed for two drivers with lap times, and both tables
\* have been written.
C29_Witness ==
    /\ pc = "saved_summary"
    /\ hypothesis[1] = FALSE
    /\ Len(valid_rows(driver_summary)) >= 2
    /\ saved = Step7Files


\* ------------------------------------------------------------------------
\* Detection on a table whose rows arrive in any order
\* ------------------------------------------------------------------------
MaxShuffleRows == 3
\* Readings below and at or above the threshold.
ShufflePairs == {<<2, 1>>, <<1, 4>>}

\* One telemetry sample, with a timestamp of its own within its group.
ReadSample(g, p) ==
    /\ pc = "load"
    /\ Len(telemetry) < MaxShuffleRows
    /\ LET n == Len(telemetry) + 1
           t == 1 + Cardinality({i \in DOMAIN telemetry :
                     telemetry[i].vehicle_number = g[1] /\ telemetry[i].lap = g[2]})
       IN  telemetry' = Append(telemetry,
               [vehicle_number |-> g[1], lap |-> g[2], timestamp |-> t,
                x_meters |-> 10 * n, y_meters |-> 10 * n + 5,
                pbrake_f |-> p[1], pbrake_r |-> p[2]])
    /\ UNCHANGED <<pc, threshold, df_events, consistencyVars, lapVars, trackVars>>

\* The table with its rows in the order perm.
Permuted(df, perm) == [i \in DOMAIN df |-> df[perm[i]]]

\* The rows reach the detector in the order perm.
PermuteRows(perm) ==
    /\ pc = "load"
    /\ telemetry' = Permuted(telemetry, perm)
    /\ pc' = "loaded"
    /\ UNCHANGED <<threshold, df_events, consistencyVars, lapVars, trackVars>>

NextShuffle ==
    \/ \E g \in Groups, p \in ShufflePairs : ReadSample(g, p)
    \/ \E perm \in Permutations(DOMAIN telemetry) : PermuteRows(perm)
    \/ DetectBrakeEvents

SpecShuffle == InitDetect /\ [][NextShuffle]_vars

\* ---- Order independence of the detection ---------------------------------
\* The set of events found in table df0 when the groups are visited in the
\* order given by order, a permutation of the positions of the group keys.
EventsVisiting(df0, order) ==
    LET df == sort_values(df0)
        keys == GroupKeys(df)
    IN  Range(Concat([j \in 1..Len(keys) |->
                         onsets(GroupOf(df, keys[order[j]]), threshold)]))

\* C28: with timestamps distinct within each (vehicle, lap) group, the set
\* of events returned by detect_brake_events is the same for every
\* permutation of the input rows and every order of visiting the groups.
C28_OrderIndependent ==
    pc = "detected" =>
        \A perm \in Permutations(DOMAIN telemetry) :
            /\ Range(detect_brake_events(Permuted(telemetry, perm), threshold))
                   = Range(df_events)
            /\ \A order \in Permutations(1..Len(GroupKeys(telemetry))) :
                   EventsVisiting(Permuted(telemetry, perm), order) = Range(df_events)

\* Events of two groups have been detected in a table that did not arrive in
\* sorted order.
C28_Witness ==
    /\ pc = "detected"
    /\ telemetry # sort_values(telemetry)
    /\ Len(GroupKeys(telemetry)) >= 2
    /\ \E i \in DOMAIN df_events : \E j \in DOMAIN df_events :
          <<df_events[i].vehicle_number, df_events[i].lap>>
              # <<df_events[j].vehicle_number, df_events[j].lap>>

====
